---- MODULE Spec2Model ----
(***************************************************************************)
(* A model of the HTTP middleware of hjarta-di (package middleware):       *)
(*   - snowflakeGenerator  (request_id.go): unique request IDs             *)
(*   - tokenBucket / RateLimit (ratelimit.go): admission control           *)
(*   - gzipResponseWriter / Compress (options.go): deferred compression    *)
(*   - recoveryWriter / Recovery (logging_test.go) and statusWriter        *)
(*     (part_010), stacked with gzipResponseWriter around one transport    *)
(*   - CORS (ratelimit_test.go): origin matching and preflight answers     *)
(*   - RequestID (request_id.go): reuse or generation of X-Request-ID      *)
(* Each component is its own state machine over its own variables; a       *)
(* specification of one component leaves the other components' variables   *)
(* unchanged.                                                              *)
(***************************************************************************)
EXTENDS Integers, Sequences, FiniteSets, TLC

VARIABLES
    \* ---- snowflakeGenerator (request_id.go) ----
    clock,          \* what g.timeNow() reads now, in ms since snowflakeEpochMs
    machineID,      \* g.machineID
    sequence,       \* g.sequence
    lastTimestamp,  \* g.lastTimestamp
    holder,         \* the worker holding g.mu, 0 when the mutex is free
    pc,             \* each worker's position in generate()
    now,            \* the local variable now of the worker holding g.mu
    firstNow,       \* history: the first clock reading of the running call
    reread,         \* history: the running call has read the clock again
    entrySeq,       \* history: g.sequence when the running call read the clock
    out,            \* the ID returned by the latest generate() to return
    watched,        \* history: one earlier returned ID, kept for comparison
    dup,            \* history: some call has returned the watched ID again
    started,        \* history: the generate() calls started, where they are counted
    \* ---- tokenBucket / RateLimit (ratelimit.go) ----
    tbClock,        \* what time.Now() reads now, in ticks
    refillRate,     \* tb.refillRate, in tokens per RateDen seconds
    maxTokens,      \* tb.maxTokens, in tokens
    tokens,         \* tb.tokens, in 1/TokDen of a token
    lastRefillTime, \* tb.lastRefillTime, in ticks
    resp,           \* the response of the latest request through RateLimit
    capped,         \* history: the latest refill was cut at maxTokens
    scn,            \* history: where the run stands in the burst-wait-retry scenario
    burstReqs,      \* history: the requests made so far in the burst of the scenario
    acq,            \* the concurrent tryAcquire() calls: each worker's position, the
                    \* holder of tb.mu, and the history of the calls since the clock moved
    \* ---- gzipResponseWriter / Compress (options.go) ----
    hpc,            \* where the request stands: idle, serving, done, panicked
    via,            \* the writer the handler was given: "gzip" (the wrapper) or "plain"
    acceptEncoding, \* the request's Accept-Encoding header
    hijackable,     \* the underlying writer supports Hijack
    header,         \* the header map of the underlying writer
    sink,           \* the calls made on the underlying writer, in order
    grw,            \* the fields of the gzipResponseWriter
    gw,             \* the state of the gzip.Writer taken from the pool
    pool,           \* gzipWriterPool, as seen by this request: its Get and Put calls
    decision,       \* history: what commit() saw when it decided
    wrote,          \* history: the bytes of the handler's Write calls that returned no error
    calls,          \* history: the calls the handler has made on its writer
    writes,         \* history: the Write calls among them
    asked,          \* history: the WriteHeader, Write and Flush calls of a handler
                    \* that makes no other call, in order
    \* ---- recoveryWriter / statusWriter / the wrapper chain ----
    stack,          \* the wrappers around the transport writer, the handler's first
    flushable,      \* the transport writer supports Flush
    rec,            \* the fields of the recoveryWriter
    sw,             \* the fields of the statusWriter
    recv,           \* history: the calls made on each wrapper, in order
    wire,           \* the calls made on the transport writer, in order
    spc,            \* where the request stands: idle, serving, returned, or the
                    \* panic value that left the first middleware
    thrown,         \* the value the handler panicked with, "none" when it did not
    ncalls,         \* history: the calls the handler has made on the chain
    \* ---- CORS (ratelimit_test.go) ----
    cors,           \* what CORS(opts...) built, with the options it was given
    creq,           \* the latest request through the middleware
    cres,           \* what the middleware did on it
    \* ---- RequestID (request_id.go) ----
    rid             \* the request through RequestID that is followed

snowVars == <<clock, machineID, sequence, lastTimestamp, holder, pc, now,
              firstNow, reread, entrySeq, out, watched, dup>>

bucketVars == <<tbClock, refillRate, maxTokens, tokens, lastRefillTime, resp,
                capped, scn, burstReqs>>

gzipVars == <<hpc, via, acceptEncoding, hijackable, header, sink, grw, gw,
              pool, decision, wrote, calls, writes>>

chainVars == <<stack, flushable, rec, sw, recv, wire, spc, thrown, ncalls>>

corsVars == <<cors, creq, cres>>

ridVars == <<rid>>

liveVars == <<started>>

acqVars == <<acq>>

askVars == <<asked>>

vars == <<snowVars, bucketVars, gzipVars, chainVars, corsVars, ridVars,
          liveVars, acqVars, askVars>>

\* What the actions of one component leave unchanged.
notSnow ==
    <<bucketVars, gzipVars, chainVars, corsVars, ridVars,
      liveVars, acqVars, askVars>>
notBucket ==
    <<snowVars, gzipVars, chainVars, corsVars, ridVars,
      liveVars, acqVars, askVars>>
notGzip ==
    <<snowVars, bucketVars, chainVars, corsVars, ridVars,
      liveVars, acqVars, askVars>>
notChain ==
    <<snowVars, bucketVars, corsVars, ridVars, liveVars, acqVars, askVars>>
notCORS ==
    <<snowVars, bucketVars, gzipVars, chainVars, ridVars,
      liveVars, acqVars, askVars>>
notRequestID ==
    <<bucketVars, gzipVars, chainVars, corsVars, liveVars, acqVars, askVars>>
notAcquire ==
    <<snowVars, gzipVars, chainVars, corsVars, ridVars, liveVars, askVars>>
notAsked ==
    <<snowVars, bucketVars, chainVars, corsVars, ridVars, liveVars, acqVars>>
notLive ==
    <<bucketVars, gzipVars, chainVars, corsVars, ridVars, acqVars, askVars>>

Max(a, b) == IF a >= b THEN a ELSE b
Min(a, b) == IF a <= b THEN a ELSE b

(***************************************************************************)
(*                    snowflakeGenerator (request_id.go)                   *)
(***************************************************************************)

\* Bit widths and masks of the ID's fields.
snowflakeMachineBits == 16
snowflakeSequenceBits == 7
snowflakeMaxSequence == (2 ^ snowflakeSequenceBits) - 1
snowflakeMachineMask == (2 ^ snowflakeMachineBits) - 1
maxClockDriftMs == 500
snowflakeMachineShift == snowflakeSequenceBits
snowflakeTimestampShift == snowflakeSequenceBits + snowflakeMachineBits

\* Bounds of the model.
NumWorkers == 2     \* concurrent callers of generate()
MaxTick == 1        \* the clock reads 0..MaxTick, or one value far ahead
MaxAdvance == 1     \* how far past the largest clock reading lastTimestamp may be pushed
MaxWatchSeq == 1    \* the watched ID's sequence is this close to an end of its range

Workers == 1..NumWorkers

\* The clock readings: a few consecutive milliseconds and one reading that is
\* exactly maxClockDriftMs ahead of the latest of them, so that a step back
\* from it is a drift of maxClockDriftMs (tolerated) or more (not tolerated).
FarClock == maxClockDriftMs + MaxTick
ClockValues == (0..MaxTick) \cup {FarClock}

\* No new call enters the critical section once lastTimestamp is here.
TsCap == FarClock + MaxAdvance

\* machineID is the FNV-1a hash of the hostname masked to 16 bits: any value
\* of 0..snowflakeMachineMask; the model takes no bit set and every bit set.
MachineIDs == {0, snowflakeMachineMask}

NoID == <<>>

\* Bitwise OR of two naturals (Go's | on uint64).
RECURSIVE BitOr(_, _)
BitOr(a, b) ==
    IF a = 0 THEN b
    ELSE IF b = 0 THEN a
    ELSE (IF a % 2 = 1 \/ b % 2 = 1 THEN 1 ELSE 0) + 2 * BitOr(a \div 2, b \div 2)

\* The 64-bit ID of lines 122-126, (uint64(ts) << 23) | (machineID << 7) | sequence,
\* kept as two words: hi is bits 23..63 and lo is bits 0..22. The timestamps of
\* the model are far below 2^41, so the shift by 23 drops no bit of ts; the
\* sequence is far below 2^23, so it reaches no bit of hi.
SnowflakeID(n, m, s) ==
    [hi |-> Max(n, 0),
     lo |-> BitOr(m * (2 ^ snowflakeMachineShift), s)]

\* The fields read back from an ID (decodeSnowflakeID of the tests).
DecodeTimestamp(id) == id.hi
DecodeMachine(id) == (id.lo \div (2 ^ snowflakeMachineShift)) % (snowflakeMachineMask + 1)
DecodeSequence(id) == id.lo % (snowflakeMaxSequence + 1)

\* Lines 105-118 with no wait at the overflow: the sequence starts again at 0
\* on the same millisecond.
SeqStepNoWait(n) ==
    IF n = lastTimestamp
    THEN IF sequence + 1 > snowflakeMaxSequence
         THEN [pc |-> "compose", seq |-> 0]
         ELSE [pc |-> "compose", seq |-> sequence + 1]
    ELSE [pc |-> "compose", seq |-> 0]

\* Lines 105-118 with the overflow test off by one.
SeqStepEarlyOverflow(n) ==
    IF n = lastTimestamp
    THEN IF sequence + 1 >= snowflakeMaxSequence
         THEN [pc |-> "spinSeq", seq |-> sequence + 1]
         ELSE [pc |-> "compose", seq |-> sequence + 1]
    ELSE [pc |-> "compose", seq |-> 0]

\* Lines 105-118 for a settled now = n: the position and the sequence after them.
SeqStep(n) ==
    IF n = lastTimestamp
    THEN IF sequence + 1 > snowflakeMaxSequence
         THEN [pc |-> "spinSeq", seq |-> sequence + 1]
         ELSE [pc |-> "compose", seq |-> sequence + 1]
    ELSE [pc |-> "compose", seq |-> 0]

\* The test of lines 85-88 left out: a reading behind lastTimestamp is used as it is.
DriftCaseUnchecked(c) == "none"

\* The test of line 88 left out: every reading behind lastTimestamp is waited for.
DriftCaseAlwaysWait(c) == IF c < lastTimestamp THEN "spin" ELSE "none"

\* Lines 85-88: what a first clock reading c asks for.
DriftCase(c) ==
    IF c < lastTimestamp
    THEN IF lastTimestamp - c > maxClockDriftMs THEN "advance" ELSE "spin"
    ELSE "none"

SnowInit ==
    /\ clock \in ClockValues
    /\ machineID \in MachineIDs
    /\ sequence = 0
    /\ lastTimestamp = 0
    /\ holder = 0
    /\ pc = [w \in Workers |-> "idle"]
    /\ now = 0
    /\ firstNow = 0
    /\ reread = FALSE
    /\ entrySeq = 0
    /\ out = NoID
    /\ watched = NoID
    /\ dup = FALSE

\* The generator of a specification that is about another component.
SnowIdle ==
    /\ clock = 0
    /\ machineID = 0
    /\ sequence = 0
    /\ lastTimestamp = 0
    /\ holder = 0
    /\ pc = [w \in Workers |-> "idle"]
    /\ now = 0
    /\ firstNow = 0
    /\ reread = FALSE
    /\ entrySeq = 0
    /\ out = NoID
    /\ watched = NoID
    /\ dup = FALSE

\* The environment: the clock reads another value, earlier or later.
Tick ==
    /\ \E c \in ClockValues \ {clock} : clock' = c
    /\ UNCHANGED <<machineID, sequence, lastTimestamp, holder, pc, now,
                   firstNow, reread, entrySeq, out, watched, dup>>
    /\ UNCHANGED notSnow

\* A worker calls generate() and waits at g.mu.Lock() (line 79).
Call(w) ==
    /\ pc[w] = "idle"
    /\ pc' = [pc EXCEPT ![w] = "lock"]
    /\ UNCHANGED <<clock, machineID, sequence, lastTimestamp, holder, now,
                   firstNow, reread, entrySeq, out, watched, dup>>
    /\ UNCHANGED notSnow

\* g.mu.Lock() returns (line 79).
Lock(w) ==
    /\ pc[w] = "lock"
    /\ holder = 0
    /\ lastTimestamp < TsCap
    /\ holder' = w
    /\ pc' = [pc EXCEPT ![w] = "read"]
    /\ UNCHANGED <<clock, machineID, sequence, lastTimestamp, now,
                   firstNow, reread, entrySeq, out, watched, dup>>
    /\ UNCHANGED notSnow

\* Lines 82-118 up to the first wait: the clock is read once; a drift beyond
\* maxClockDriftMs advances now to lastTimestamp + 1, a smaller one enters the
\* loop of line 99.
ReadClock(w) ==
    /\ pc[w] = "read"
    /\ holder = w
    /\ firstNow' = clock
    /\ reread' = FALSE
    /\ entrySeq' = sequence
    /\ CASE DriftCase(clock) = "advance" ->
               \* lines 93-94, then the else of line 116: now # lastTimestamp
               /\ now' = lastTimestamp + 1
               /\ sequence' = 0
               /\ pc' = [pc EXCEPT ![w] = "compose"]
         [] DriftCase(clock) = "spin" ->
               /\ now' = clock
               /\ sequence' = sequence
               /\ pc' = [pc EXCEPT ![w] = "spinBack"]
         [] OTHER ->
               /\ now' = clock
               /\ sequence' = SeqStep(clock).seq
               /\ pc' = [pc EXCEPT ![w] = SeqStep(clock).pc]
    /\ UNCHANGED <<clock, machineID, lastTimestamp, holder, out, watched, dup>>
    /\ UNCHANGED notSnow

\* One turn of the loop of lines 99-101, and lines 105-118 when it ends.
SpinBack(w) ==
    /\ pc[w] = "spinBack"
    /\ holder = w
    /\ now' = clock
    /\ reread' = TRUE
    /\ IF clock < lastTimestamp
       THEN UNCHANGED <<sequence, pc>>
       ELSE /\ sequence' = SeqStep(clock).seq
            /\ pc' = [pc EXCEPT ![w] = SeqStep(clock).pc]
    /\ UNCHANGED <<clock, machineID, lastTimestamp, holder, firstNow, entrySeq,
                   out, watched, dup>>
    /\ UNCHANGED notSnow

\* One turn of the loop of lines 110-112, and line 114 when it ends.
SpinSeq(w) ==
    /\ pc[w] = "spinSeq"
    /\ holder = w
    /\ now' = clock
    /\ reread' = TRUE
    /\ IF clock <= lastTimestamp
       THEN UNCHANGED <<sequence, pc>>
       ELSE /\ sequence' = 0
            /\ pc' = [pc EXCEPT ![w] = "compose"]
    /\ UNCHANGED <<clock, machineID, lastTimestamp, holder, firstNow, entrySeq,
                   out, watched, dup>>
    /\ UNCHANGED notSnow

\* Lines 120-133 without the deferred g.mu.Unlock(): the call returns with
\* the mutex held.
ComposeKeepsMutex(w, keep) ==
    /\ pc[w] = "compose"
    /\ holder = w
    /\ lastTimestamp' = now
    /\ out' = SnowflakeID(now, machineID, sequence)
    /\ pc' = [pc EXCEPT ![w] = "idle"]
    /\ UNCHANGED <<clock, machineID, sequence, holder, now, firstNow, reread,
                   entrySeq, watched, dup>>
    /\ UNCHANGED notSnow

\* Lines 120-133 and the deferred g.mu.Unlock(): the ID is composed and returned.
\* keep says whether the history may start watching this ID.
Compose(w, keep) ==
    /\ pc[w] = "compose"
    /\ holder = w
    /\ lastTimestamp' = now
    /\ out' = SnowflakeID(now, machineID, sequence)
    /\ dup' = (dup \/ (watched # NoID /\ out' = watched))
    /\ watched' = IF keep /\ watched = NoID THEN out' ELSE watched
    /\ holder' = 0
    /\ pc' = [pc EXCEPT ![w] = "idle"]
    /\ now' = 0
    /\ firstNow' = 0
    /\ reread' = FALSE
    /\ entrySeq' = 0
    /\ UNCHANGED <<clock, machineID, sequence>>
    /\ UNCHANGED notSnow

\* The history may start watching an ID whose sequence field is within
\* MaxWatchSeq of either end of the field's range.
Watchable(id) ==
    \/ DecodeSequence(id) <= MaxWatchSeq
    \/ DecodeSequence(id) >= snowflakeMaxSequence - MaxWatchSeq

Return(w) == Compose(w, FALSE)

ReturnWatched(w) ==
    /\ watched = NoID
    /\ pc[w] = "compose"
    /\ Watchable(SnowflakeID(now, machineID, sequence))
    /\ Compose(w, TRUE)

SnowStep ==
    \/ Tick
    \/ \E w \in Workers : Call(w)
    \/ \E w \in Workers : Lock(w)
    \/ \E w \in Workers : ReadClock(w)
    \/ \E w \in Workers : SpinBack(w)
    \/ \E w \in Workers : SpinSeq(w)
    \/ \E w \in Workers : Return(w)

\* ---- the generator with a bounded number of calls ----

MaxLiveCalls == 2   \* the generate() calls of a run in which they are counted

LiveIdle == started = 0

\* A generator at any time of its life with no call running: just built, or
\* after the 128 IDs of one millisecond. The machine ID, which no test of
\* generate() reads, is one value.
LiveInit ==
    /\ clock \in ClockValues
    /\ machineID = snowflakeMachineMask
    /\ \/ sequence = 0 /\ lastTimestamp = 0
       \/ sequence = snowflakeMaxSequence /\ lastTimestamp \in 0..MaxTick
    /\ holder = 0
    /\ pc = [w \in Workers |-> "idle"]
    /\ now = 0
    /\ firstNow = 0
    /\ reread = FALSE
    /\ entrySeq = 0
    /\ out = NoID
    /\ watched = NoID
    /\ dup = FALSE
    /\ started = 0

\* A worker calls generate() and waits at g.mu.Lock() (line 79); the call is
\* counted.
LiveCall(w) ==
    /\ started < MaxLiveCalls
    /\ pc[w] = "idle"
    /\ pc' = [pc EXCEPT ![w] = "lock"]
    /\ started' = started + 1
    /\ UNCHANGED <<clock, machineID, sequence, lastTimestamp, holder, now,
                   firstNow, reread, entrySeq, out, watched, dup>>
    /\ UNCHANGED notLive

(***************************************************************************)
(*                   tokenBucket / RateLimit (ratelimit.go)                *)
(*                                                                         *)
(* Time is counted in ticks, TicksPerSecond of them to time.Second: the    *)
(* clock and time.Duration have the same resolution, as in Go where both   *)
(* count nanoseconds. The float64 quantities are kept as exact fractions:  *)
(* a rate is a number of tokens per RateDen seconds and a token count is a *)
(* number of 1/TokDen tokens, so that elapsed * rate is exact.             *)
(***************************************************************************)

TicksPerSecond == 4     \* ticks in one second (the resolution of time)
RateDen == 4            \* a rate is a whole number of tokens per RateDen seconds
MaxRateNum == 4         \* the largest rate passed to RateLimit, in tokens per RateDen seconds
MaxBurst == 2           \* the largest burst passed to RateLimit
MaxTime == 8            \* the clock reads 0..MaxTime ticks

TokDen == RateDen * TicksPerSecond

Times == 0..MaxTime
RateInputs == 0..MaxRateNum
BurstInputs == 0..MaxBurst

NoResp == [status |-> 0, retryAfter |-> 0, wait |-> 0]

\* The least whole number not below a / b, for a >= 0 and b > 0 (math.Ceil).
CeilDiv(a, b) == (a + b - 1) \div b

\* Lines 56-61: a rate that is not positive is replaced by 1.0.
DefaultRate(rps) == IF rps <= 0 THEN RateDen ELSE rps

\* Lines 63-66: a burst that is not positive is replaced by 1.
DefaultBurst(burst) == IF burst <= 0 THEN 1 ELSE burst

\* Line 34: the seconds since the last refill, never negative (here in ticks).
Elapsed(t) == Max(0, t - lastRefillTime)

\* Refill without the cap of math.Min.
RefillNoCap(tok, e) == tok + e * refillRate

\* Line 35: the token count after the refill for e elapsed ticks.
Refill(tok, e) == Min(maxTokens * TokDen, tok + e * refillRate)

\* An admission that takes no token.
SpendNothing(tok) == tok

\* Line 39: one token is spent.
Spend(tok) == tok - TokDen

\* Lines 44-45: the wait until one token is there, deficit / rate, converted
\* to a time.Duration: the conversion drops the fraction of a tick.
RetryAfterDuration(tok) == (TokDen - tok) \div refillRate

\* Line 74: the Retry-After header, whole seconds rounded up and at least 1.
RetryAfterSeconds(d) == Max(CeilDiv(d, TicksPerSecond), 1)

\* RateLimit(requestsPerSecond, burst) builds the bucket (lines 20-27, 55-68).
BucketInit ==
    /\ tbClock \in Times
    /\ \E rps \in RateInputs : refillRate = DefaultRate(rps)
    /\ \E burst \in BurstInputs : maxTokens = DefaultBurst(burst)
    /\ tokens = maxTokens * TokDen
    /\ lastRefillTime = tbClock
    /\ resp = NoResp
    /\ capped = FALSE
    /\ scn = "burst"
    /\ burstReqs = 0

\* The bucket of a specification that is about another component.
BucketIdle ==
    /\ tbClock = 0
    /\ refillRate = RateDen
    /\ maxTokens = 1
    /\ tokens = TokDen
    /\ lastRefillTime = 0
    /\ resp = NoResp
    /\ capped = FALSE
    /\ scn = "burst"
    /\ burstReqs = 0

\* The wait of the scenario: at least 1/rate seconds and less than 2/rate.
OneTokenWait(d) == d * refillRate >= TokDen /\ d * refillRate < 2 * TokDen

\* The environment: the clock reads another value. The scenario goes on only
\* when the clock moves once, after the first rejection, by the wait.
TbTick ==
    /\ \E t \in Times \ {tbClock} :
          /\ tbClock' = t
          /\ scn' = IF scn = "limited" /\ OneTokenWait(t - tbClock)
                    THEN "waited" ELSE "off"
    /\ UNCHANGED <<refillRate, maxTokens, tokens, lastRefillTime, resp, capped,
                   burstReqs>>
    /\ UNCHANGED notBucket

\* The scenario after a request: a burst of maxTokens requests, one more
\* request, the wait, and two requests after it.
ScnAfterRequest ==
    CASE scn = "burst" /\ burstReqs < maxTokens -> "burst"
      [] scn = "burst" /\ burstReqs = maxTokens -> "limited"
      [] scn = "waited" -> "one"
      [] scn = "one" -> "over"
      [] OTHER -> "off"

\* One request through the handler of RateLimit (lines 71-83), with
\* tryAcquire (lines 29-48) under tb.mu.
Request ==
    LET filled == Refill(tokens, Elapsed(tbClock))
        wait == RetryAfterDuration(filled)
    IN  /\ lastRefillTime' = tbClock
        /\ capped' = (tokens + Elapsed(tbClock) * refillRate > maxTokens * TokDen)
        /\ IF filled >= TokDen
           THEN /\ tokens' = Spend(filled)
                /\ resp' = [status |-> 200, retryAfter |-> 0, wait |-> 0]
           ELSE /\ tokens' = filled
                /\ resp' = [status |-> 429,
                            retryAfter |-> RetryAfterSeconds(wait),
                            wait |-> wait]
        /\ scn' = ScnAfterRequest
        /\ burstReqs' = IF scn = "burst" /\ burstReqs < maxTokens
                       THEN burstReqs + 1 ELSE burstReqs
        /\ UNCHANGED <<tbClock, refillRate, maxTokens>>
        /\ UNCHANGED notBucket

\* ---- concurrent callers of tryAcquire ----

MaxAcquires == 3    \* the tryAcquire() calls started between two moves of the clock

\* tb.mu is held by everybody at once: Lock() never waits.
MutexIgnored(h) == TRUE

\* tb.mu.Lock() returns when no goroutine holds the mutex (line 30).
MutexFree(h) == h = 0

\* No call is running; k is the tokens the bucket holds at the present clock
\* reading, the refill it is owed included.
AcqAt(k) ==
    [pc |-> [w \in Workers |-> "idle"], holder |-> 0, k |-> k,
     calls |-> 0, admitted |-> 0]

AcqInit == acq = AcqAt(tokens)

\* The callers of a specification that is about another component.
AcqIdle == acq = AcqAt(TokDen)

\* The environment: the clock reads another value while no call is running.
TaTick ==
    /\ \A w \in Workers : acq.pc[w] = "idle"
    /\ \E t \in Times \ {tbClock} :
          /\ tbClock' = t
          /\ acq' = AcqAt(Refill(tokens, Max(0, t - lastRefillTime)))
    /\ UNCHANGED <<refillRate, maxTokens, tokens, lastRefillTime, resp, capped,
                   scn, burstReqs>>
    /\ UNCHANGED notAcquire

\* A worker calls tryAcquire() and waits at tb.mu.Lock() (line 30).
TaCall(w) ==
    /\ acq.pc[w] = "idle"
    /\ acq.calls < MaxAcquires
    /\ acq' = [acq EXCEPT !.pc[w] = "lock", !.calls = @ + 1]
    /\ UNCHANGED bucketVars
    /\ UNCHANGED notAcquire

\* tb.mu.Lock() returns (line 30).
TaLock(w) ==
    /\ acq.pc[w] = "lock"
    /\ MutexFree(acq.holder)
    /\ acq' = [acq EXCEPT !.pc[w] = "refill", !.holder = w]
    /\ UNCHANGED bucketVars
    /\ UNCHANGED notAcquire

\* Lines 33-36: the refill for the time since the last one.
TaRefill(w) ==
    /\ acq.pc[w] = "refill"
    /\ tokens' = Refill(tokens, Elapsed(tbClock))
    /\ lastRefillTime' = tbClock
    /\ acq' = [acq EXCEPT !.pc[w] = "test"]
    /\ UNCHANGED <<tbClock, refillRate, maxTokens, resp, capped, scn, burstReqs>>
    /\ UNCHANGED notAcquire

\* Line 38, and lines 44-47 with the deferred tb.mu.Unlock() when no token is
\* there: the call returns false.
TaTest(w) ==
    /\ acq.pc[w] = "test"
    /\ acq' = IF tokens >= TokDen
              THEN [acq EXCEPT !.pc[w] = "spend"]
              ELSE [acq EXCEPT !.pc[w] = "idle", !.holder = 0]
    /\ UNCHANGED bucketVars
    /\ UNCHANGED notAcquire

\* Lines 39-41 with the deferred tb.mu.Unlock(): the token is spent and the
\* call returns true.
TaSpend(w) ==
    /\ acq.pc[w] = "spend"
    /\ tokens' = Spend(tokens)
    /\ acq' = [acq EXCEPT !.pc[w] = "idle", !.holder = 0, !.admitted = @ + 1]
    /\ UNCHANGED <<tbClock, refillRate, maxTokens, lastRefillTime, resp, capped,
                   scn, burstReqs>>
    /\ UNCHANGED notAcquire

(***************************************************************************)
(*              gzipResponseWriter / Compress (options.go)                 *)
(*                                                                         *)
(* A byte string is kept as its runs, a sequence of <<byte, count>> with   *)
(* no two neighbouring runs of the same byte, so that bodies around the    *)
(* 256-byte threshold stay small. A header value is kept as its tokens, a  *)
(* sequence of words and of the separators " ", ";", "," and "=", on which *)
(* strings.Cut, strings.TrimSpace and strings.SplitSeq are computed; the   *)
(* empty sequence is the empty string (header not set).                    *)
(* The underlying http.ResponseWriter is the record of the calls made on   *)
(* it, in order, each with the header map as it stood and whether the      *)
(* transport took the call.                                                *)
(***************************************************************************)

minCompressSize == 256

\* Bounds of the model.
MaxWrites == 2      \* Write calls of one handler
MaxCalls == 4       \* calls of one handler on its response writer, of any kind

NoBytes == <<>>

RECURSIVE ByteLen(_)
\* len(b)
ByteLen(b) == IF b = <<>> THEN 0 ELSE b[1][2] + ByteLen(Tail(b))

\* append(a, b...)
Cat(a, b) ==
    IF a = <<>> THEN b
    ELSE IF b = <<>> THEN a
    ELSE IF a[Len(a)][1] = b[1][1]
         THEN SubSeq(a, 1, Len(a) - 1)
                \o << <<b[1][1], a[Len(a)][2] + b[1][2]>> >> \o Tail(b)
         ELSE a \o b

\* What a handler passes to Write: one run of a printable or of a binary byte,
\* of a length next to the threshold.
Bytes == {"t", "z"}
ChunkSizes == {1, minCompressSize - 1, minCompressSize}
Chunks == {<< <<b, n>> >> : b \in Bytes, n \in ChunkSizes}

\* strings.Cut(s, sep)
Cut(s, sep) ==
    LET at == {i \in 1..Len(s) : s[i] = sep}
    IN  IF at = {}
        THEN [before |-> s, after |-> <<>>, found |-> FALSE]
        ELSE LET i == CHOOSE i \in at : \A j \in at : i <= j
             IN  [before |-> SubSeq(s, 1, i - 1),
                  after |-> SubSeq(s, i + 1, Len(s)),
                  found |-> TRUE]

RECURSIVE SplitSeq(_, _)
\* strings.SplitSeq(s, sep), as the sequence of its parts
SplitSeq(s, sep) ==
    LET c == Cut(s, sep)
    IN  IF c.found THEN <<c.before>> \o SplitSeq(c.after, sep) ELSE <<s>>

RECURSIVE TrimLeft(_)
TrimLeft(s) == IF s # <<>> /\ Head(s) = " " THEN TrimLeft(Tail(s)) ELSE s

RECURSIVE TrimRight(_)
TrimRight(s) ==
    IF s # <<>> /\ s[Len(s)] = " " THEN TrimRight(SubSeq(s, 1, Len(s) - 1)) ELSE s

\* strings.TrimSpace(s)
TrimSpace(s) == TrimRight(TrimLeft(s))

\* The lower-case form of a word, for the words the requests carry.
Lower(word) ==
    CASE word \in {"GZIP", "Gzip"} -> "gzip"
      [] word = "Q" -> "q"
      [] OTHER -> word

\* strings.EqualFold(s, t)
EqualFold(s, t) ==
    /\ Len(s) = Len(t)
    /\ \A i \in 1..Len(s) : Lower(s[i]) = Lower(t[i])

\* strconv.ParseFloat(s, 64) succeeds and gives 0
ParsesToZero(s) == s \in {<<"0">>, <<"0.0">>, <<"0.000">>}

RECURSIVE AcceptsGzipIn(_)
\* The loop of acceptsGzip over the parts of the header.
AcceptsGzipIn(parts) ==
    IF parts = <<>> THEN FALSE
    ELSE LET c == Cut(TrimSpace(Head(parts)), ";")
             encoding == TrimSpace(c.before)
             params == SplitSeq(c.after, ";")
         IN  IF ~EqualFold(encoding, <<"gzip">>) THEN AcceptsGzipIn(Tail(parts))
             ELSE IF c.after = <<>> THEN TRUE
             ELSE ~\E i \in 1..Len(params) :
                     LET kv == Cut(TrimSpace(params[i]), "=")
                     IN  /\ EqualFold(TrimSpace(kv.before), <<"q">>)
                         /\ ParsesToZero(TrimSpace(kv.after))

acceptsGzip(h) == AcceptsGzipIn(SplitSeq(h, ","))

\* The Accept-Encoding headers of the requests.
AcceptEncodings ==
    { <<"gzip", ";", "q", "=", "0">>,
      <<"deflate", ",", " ", "GZIP", ";", "q", "=", "0.5">> }

\* The entries of the Accept-Encoding headers of the negotiation alone: gzip
\* bare, with a weight, with weight zero in its spellings, and other codings.
AcceptEntries ==
    { <<"gzip">>,
      <<"Gzip", ";", "q", "=", "1.0">>,
      <<"gzip", ";", "q", "=", "0">>,
      <<"GZIP", ";", " ", "Q", " ", "=", " ", "0.0">>,
      <<" ", "gzip", " ", ";", "q", "=", "0.000">>,
      <<"gzip", ";", "level", "=", "1", ";", "q", "=", "0">>,
      <<"deflate">>,
      <<"br", ";", "q", "=", "0">> }

\* The headers of one entry and of two.
AcceptHeaders ==
    {<<>>} \cup AcceptEntries
           \cup {a \o <<",">> \o b : a \in AcceptEntries, b \in AcceptEntries}

compressedContentTypes ==
    { <<"application/gzip">>, <<"application/zip">>, <<"application/x-gzip">>,
      <<"application/x-compressed">>, <<"application/x-bzip2">>,
      <<"application/x-xz">>, <<"application/zstd">>, <<"image/png">>,
      <<"image/jpeg">>, <<"image/gif">>, <<"image/webp">>, <<"audio/mpeg">>,
      <<"audio/ogg">>, <<"video/mp4">>, <<"video/webm">>,
      <<"application/octet-stream">>, <<"application/x-tar">>,
      <<"application/x-rar-compressed">>, <<"application/x-7z-compressed">>,
      <<"application/vnd.rar">>, <<"application/java-archive">>,
      <<"application/wasm">>, <<"font/woff">>, <<"font/woff2">>,
      <<"application/font-woff">>, <<"application/x-font-woff">>,
      <<"application/pdf">>, <<"application/x-shockwave-flash">> }

\* The Content-Type, Content-Encoding and Content-Length values a handler sets.
ContentTypes ==
    { <<"text/html", ";", " ", "charset=utf-8">>,
      <<"image/png">>,
      <<"image/png", " ", ";", " ", "q=1">>,
      <<"IMAGE/PNG">> }
ContentEncodings == { <<"br">> }
ContentLengths == { <<"512">> }

\* The status codes a handler passes to WriteHeader.
StatusCodes == {103, 200, 204, 206, 304}

\* http.DetectContentType(b): printable text or binary data.
DetectContentType(b) ==
    IF b = <<>> \/ b[1][1] = "t"
    THEN <<"text/plain", ";", " ", "charset=utf-8">>
    ELSE <<"application/octet-stream">>

\* The base type looked up in compressedContentTypes.
BaseTypeWhole(ct) == TrimSpace(ct)

BaseType(ct) == TrimSpace(Cut(ct, ";").before)

NoHeader == [ct |-> <<>>, ce |-> <<>>, cl |-> <<>>, vary |-> <<>>]
NewGzipResponseWriter ==
    [buf |-> NoBytes, statusCode |-> 0, decided |-> FALSE, skipGzip |-> FALSE,
     hijacked |-> FALSE, commitErr |-> FALSE]
\* gzip.Writer after Reset(dst)
ResetWriter(dst) ==
    [dst |-> dst, wroteHeader |-> FALSE, pending |-> NoBytes, digest |-> NoBytes,
     closed |-> FALSE, err |-> FALSE]
\* No Get and no Put yet; put records the destination of the encoder at each Put.
EmptyPoolLog == [gets |-> 0, puts |-> <<>>]
NoDecision ==
    [taken |-> FALSE, len |-> 0, ct |-> <<>>, ce |-> <<>>, cl |-> <<>>, status |-> 0]

\* ---- the underlying http.ResponseWriter ----

\* The connection has been taken over by a successful Hijack.
TransportHijacked(s) == \E i \in 1..Len(s) : s[i].op = "Hijack" /\ s[i].ok

\* A Write on the underlying writer is taken.
TransportOK(x) == ~TransportHijacked(x.sink)

RWWriteHeader(x, code) ==
    [x EXCEPT !.sink = Append(@, [op |-> "WriteHeader", code |-> code,
                                  hdr |-> x.header,
                                  ok |-> ~TransportHijacked(x.sink)])]

RWWrite(x, seg) ==
    [x EXCEPT !.sink = Append(@, [op |-> "Write", seg |-> seg,
                                  ok |-> TransportOK(x)])]

RWFlush(x) ==
    [x EXCEPT !.sink = Append(@, [op |-> "Flush", ok |-> TransportOK(x)])]

RWHijack(x) ==
    [x EXCEPT !.sink = Append(@, [op |-> "Hijack",
                                  ok |-> hijackable /\ ~TransportHijacked(x.sink)])]

Raw(b) == [kind |-> "raw", bytes |-> b]

\* ---- compress/gzip.Writer writing to the underlying writer ----

\* A write of the encoder to its destination; a failure stays in z.err.
GwEmit(x, seg) == [RWWrite(x, seg) EXCEPT !.gw.err = ~TransportOK(x)]

\* The 10-byte gzip header, written before the first data.
GwHeader(x) ==
    IF x.gw.wroteHeader THEN x
    ELSE GwEmit([x EXCEPT !.gw.wroteHeader = TRUE], [kind |-> "header", bytes |-> NoBytes])

\* gw.Write(b): the data is taken into the encoder.
GwWrite(x, b) ==
    IF x.gw.err THEN x
    ELSE LET y == GwHeader(x)
         IN  IF y.gw.err THEN y
             ELSE [y EXCEPT !.gw.pending = Cat(@, b), !.gw.digest = Cat(@, b)]

\* The data held by the encoder leaves as one block.
GwBlock(x) ==
    GwEmit([x EXCEPT !.gw.pending = NoBytes], [kind |-> "block", bytes |-> x.gw.pending])

\* gw.Flush()
GwFlush(x) ==
    IF x.gw.err \/ x.gw.closed THEN x
    ELSE LET y == GwHeader(x)
         IN  IF y.gw.err THEN y ELSE GwBlock(y)

\* gw.Close(): the last block, then the trailer with the checksum and size.
GwClose(x) ==
    IF x.gw.err \/ x.gw.closed THEN x
    ELSE LET y == GwHeader([x EXCEPT !.gw.closed = TRUE])
         IN  IF y.gw.err THEN y
             ELSE LET z == GwBlock(y)
                  IN  IF z.gw.err THEN z
                      ELSE GwEmit(z, [kind |-> "trailer", bytes |-> z.gw.digest])

\* ---- gzipResponseWriter ----

ShouldSkipGzipAnySize(x) ==
    LET ct == IF x.header.ct = <<>> THEN DetectContentType(x.grw.buf) ELSE x.header.ct
    IN  \/ BaseType(ct) \in compressedContentTypes
        \/ x.header.ce # <<>>
        \/ x.grw.statusCode \in {204, 304}
        \/ x.grw.statusCode = 206
        \/ x.grw.statusCode < 200

ShouldSkipGzipBySizeAndType(x) ==
    LET ct == IF x.header.ct = <<>> THEN DetectContentType(x.grw.buf) ELSE x.header.ct
    IN  \/ BaseType(ct) \in compressedContentTypes
        \/ ByteLen(x.grw.buf) < minCompressSize

ShouldSkipGzip(x) ==
    LET ct == IF x.header.ct = <<>> THEN DetectContentType(x.grw.buf) ELSE x.header.ct
    IN  \/ BaseType(ct) \in compressedContentTypes
        \/ ByteLen(x.grw.buf) < minCompressSize
        \/ x.header.ce # <<>>
        \/ x.grw.statusCode \in {204, 304}
        \/ x.grw.statusCode = 206
        \/ x.grw.statusCode < 200

CompressHeadersKeepLength(h, b) ==
    [h EXCEPT !.ct = IF @ = <<>> THEN DetectContentType(b) ELSE @,
              !.ce = <<"gzip">>]

\* The headers of a compressed response: the sniffed Content-Type when none
\* is set, Content-Encoding: gzip, and no Content-Length.
CompressHeaders(h, b) ==
    [h EXCEPT !.ct = IF @ = <<>> THEN DetectContentType(b) ELSE @,
              !.ce = <<"gzip">>,
              !.cl = <<>>]

\* commit(): the decision, the headers, the status line and the buffered bytes.
Commit(x) ==
    IF x.grw.decided THEN x
    ELSE
      LET skip == ShouldSkipGzip(x)
          status == IF x.grw.statusCode = 0 THEN 200 ELSE x.grw.statusCode
          x1 == [x EXCEPT !.grw.decided = TRUE,
                          !.grw.skipGzip = skip,
                          !.grw.statusCode = status,
                          !.decision = [taken |-> TRUE,
                                        len |-> ByteLen(x.grw.buf),
                                        ct |-> x.header.ct,
                                        ce |-> x.header.ce,
                                        cl |-> x.header.cl,
                                        status |-> x.grw.statusCode]]
          x2 == IF skip THEN x1
                ELSE [x1 EXCEPT !.header = CompressHeaders(@, x.grw.buf)]
          x3 == RWWriteHeader(x2, status)
      IN  IF x.grw.buf = NoBytes THEN x3
          ELSE IF skip
               THEN [RWWrite(x3, Raw(x.grw.buf)) EXCEPT
                        !.grw.commitErr = ~TransportOK(x3), !.grw.buf = NoBytes]
               ELSE LET x4 == GwWrite(x3, x.grw.buf)
                    IN  [x4 EXCEPT !.grw.commitErr = x4.gw.err, !.grw.buf = NoBytes]

GrwWriteHeaderThrough(x, code) ==
    RWWriteHeader([x EXCEPT !.grw.statusCode = code], code)

\* gzipResponseWriter.WriteHeader(code)
GrwWriteHeader(x, code) ==
    IF x.grw.statusCode = 0 THEN [x EXCEPT !.grw.statusCode = code] ELSE x

GrwWriteAlwaysBuffers(x, b) ==
    IF x.grw.commitErr THEN x
    ELSE LET x2 == [x EXCEPT !.grw.buf = Cat(@, b)]
         IN  IF ByteLen(x2.grw.buf) >= minCompressSize THEN Commit(x2) ELSE x2

\* gzipResponseWriter.Write(b)
GrwWrite(x, b) ==
    IF x.grw.commitErr THEN x
    ELSE LET x1 == IF x.grw.statusCode = 0 THEN [x EXCEPT !.grw.statusCode = 200] ELSE x
         IN  IF x1.grw.decided
             THEN IF x1.grw.skipGzip THEN RWWrite(x1, Raw(b)) ELSE GwWrite(x1, b)
             ELSE LET x2 == [x1 EXCEPT !.grw.buf = Cat(@, b)]
                  IN  IF ByteLen(x2.grw.buf) >= minCompressSize THEN Commit(x2) ELSE x2

\* gzipResponseWriter.Write(b) returns an error.
GrwWriteFails(x, b) ==
    \/ x.grw.commitErr
    \/ x.grw.decided /\ x.grw.skipGzip /\ ~TransportOK(x)
    \/ x.grw.decided /\ ~x.grw.skipGzip /\ GwWrite(x, b).gw.err
    \/ ~x.grw.decided /\ GrwWrite(x, b).grw.commitErr

GrwFlushTransportOnly(x) == RWFlush(Commit(x))

\* gzipResponseWriter.Flush()
GrwFlush(x) ==
    LET x1 == Commit(x)
        x2 == IF ~x1.grw.skipGzip THEN GwFlush(x1) ELSE x1
    IN  RWFlush(x2)

GrwHijackUnchecked(x) == [RWHijack(x) EXCEPT !.grw.hijacked = TRUE]

\* gzipResponseWriter.Hijack()
GrwHijack(x) ==
    LET x1 == RWHijack(x)
    IN  [x1 EXCEPT !.grw.hijacked = @ \/ x1.sink[Len(x1.sink)].ok]

GrwCloseNoEnd(x) ==
    IF x.grw.hijacked THEN x ELSE Commit(x)

\* gzipResponseWriter.close()
GrwClose(x) ==
    IF x.grw.hijacked THEN x
    ELSE LET x1 == Commit(x)
         IN  IF ~x1.grw.skipGzip THEN GwClose(x1) ELSE x1

ClosePanickedAlways(x) == GwClose(x)

\* The deferred function of Compress when the handler panicked.
ClosePanicked(x) ==
    IF x.grw.decided /\ ~x.grw.skipGzip /\ ~x.grw.hijacked THEN GwClose(x) ELSE x

\* ---- the request through Compress ----

World == [grw |-> grw, gw |-> gw, header |-> header, sink |-> sink,
          pool |-> pool, decision |-> decision]

Becomes(x) ==
    /\ grw' = x.grw
    /\ gw' = x.gw
    /\ header' = x.header
    /\ sink' = x.sink
    /\ pool' = x.pool
    /\ decision' = x.decision

GzipInit ==
    /\ hpc = "idle"
    /\ via = "none"
    /\ acceptEncoding = <<>>
    /\ hijackable \in BOOLEAN
    /\ header = NoHeader
    /\ sink = <<>>
    /\ grw = NewGzipResponseWriter
    /\ gw = ResetWriter("discard")
    /\ pool = EmptyPoolLog
    /\ decision = NoDecision
    /\ wrote = NoBytes
    /\ calls = 0
    /\ writes = 0

GzipIdle ==
    /\ hpc = "idle"
    /\ via = "none"
    /\ acceptEncoding = <<>>
    /\ hijackable = FALSE
    /\ header = NoHeader
    /\ sink = <<>>
    /\ grw = NewGzipResponseWriter
    /\ gw = ResetWriter("discard")
    /\ pool = EmptyPoolLog
    /\ decision = NoDecision
    /\ wrote = NoBytes
    /\ calls = 0
    /\ writes = 0

\* The handler of Compress up to the call of next.ServeHTTP.
Serve(ae) ==
    /\ hpc = "idle"
    /\ hpc' = "serving"
    /\ acceptEncoding' = ae
    /\ header' = [header EXCEPT !.vary = Append(@, "Accept-Encoding")]
    /\ IF acceptsGzip(ae)
       THEN /\ via' = "gzip"
            /\ pool' = [pool EXCEPT !.gets = @ + 1]
            /\ gw' = ResetWriter("w")
            /\ grw' = NewGzipResponseWriter
       ELSE /\ via' = "plain"
            /\ UNCHANGED <<gw, grw, pool>>
    /\ UNCHANGED <<hijackable, sink, decision, wrote, calls, writes>>
    /\ UNCHANGED notGzip

\* One more call of the handler on the writer it was given.
HandlerCalls ==
    /\ hpc = "serving"
    /\ calls < MaxCalls
    /\ calls' = calls + 1

\* The handler sets a response header, on the header map of the underlying writer.
SetContentType(v) ==
    /\ HandlerCalls
    /\ header.ct = <<>>
    /\ header' = [header EXCEPT !.ct = v]
    /\ UNCHANGED <<hpc, via, acceptEncoding, hijackable, sink, grw, gw,
                   pool, decision, wrote, writes>>
    /\ UNCHANGED notGzip

SetContentEncoding(v) ==
    /\ HandlerCalls
    /\ header.ce = <<>>
    /\ header' = [header EXCEPT !.ce = v]
    /\ UNCHANGED <<hpc, via, acceptEncoding, hijackable, sink, grw, gw,
                   pool, decision, wrote, writes>>
    /\ UNCHANGED notGzip

SetContentLength(v) ==
    /\ HandlerCalls
    /\ header.cl = <<>>
    /\ header' = [header EXCEPT !.cl = v]
    /\ UNCHANGED <<hpc, via, acceptEncoding, hijackable, sink, grw, gw,
                   pool, decision, wrote, writes>>
    /\ UNCHANGED notGzip

\* The handler calls WriteHeader(code).
WriteHeader(code) ==
    /\ HandlerCalls
    /\ Becomes(IF via = "gzip" THEN GrwWriteHeader(World, code)
               ELSE RWWriteHeader(World, code))
    /\ UNCHANGED <<hpc, via, acceptEncoding, hijackable, wrote, writes>>
    /\ UNCHANGED notGzip

\* The handler calls Write(b).
Write(b) ==
    /\ HandlerCalls
    /\ writes < MaxWrites
    /\ writes' = writes + 1
    /\ LET failed == IF via = "gzip" THEN GrwWriteFails(World, b)
                      ELSE ~TransportOK(World)
       IN  wrote' = IF failed THEN wrote ELSE Cat(wrote, b)
    /\ Becomes(IF via = "gzip" THEN GrwWrite(World, b) ELSE RWWrite(World, Raw(b)))
    /\ UNCHANGED <<hpc, via, acceptEncoding, hijackable>>
    /\ UNCHANGED notGzip

\* The handler calls Flush().
Flush ==
    /\ HandlerCalls
    /\ Becomes(IF via = "gzip" THEN GrwFlush(World) ELSE RWFlush(World))
    /\ UNCHANGED <<hpc, via, acceptEncoding, hijackable, wrote, writes>>
    /\ UNCHANGED notGzip

\* The handler calls Hijack().
Hijack ==
    /\ HandlerCalls
    /\ Becomes(IF via = "gzip" THEN GrwHijack(World) ELSE RWHijack(World))
    /\ UNCHANGED <<hpc, via, acceptEncoding, hijackable, wrote, writes>>
    /\ UNCHANGED notGzip

\* What the deferred function of Compress leaves: the encoder detached from
\* the response and back in the pool.
ReleasedAsIs(x) == [x EXCEPT !.pool.puts = Append(@, x.gw.dst)]

Released(x) ==
    [x EXCEPT !.gw = ResetWriter("discard"), !.pool.puts = Append(@, "discard")]

\* next.ServeHTTP returns: the deferred function closes the wrapper.
HandlerReturns ==
    /\ hpc = "serving"
    /\ hpc' = "done"
    /\ Becomes(IF via = "gzip" THEN Released(GrwClose(World)) ELSE World)
    /\ UNCHANGED <<via, acceptEncoding, hijackable, wrote, calls, writes>>
    /\ UNCHANGED notGzip

\* next.ServeHTTP panics: the deferred function ends a started gzip stream.
HandlerPanics ==
    /\ hpc = "serving"
    /\ hpc' = "panicked"
    /\ Becomes(IF via = "gzip" THEN Released(ClosePanicked(World)) ELSE World)
    /\ UNCHANGED <<via, acceptEncoding, hijackable, wrote, calls, writes>>
    /\ UNCHANGED notGzip

\* ---- a handler that only calls WriteHeader, Write and Flush ----

\* WriteHeader has been called on the underlying writer.
HeaderPassed(s) == \E i \in 1..Len(s) : s[i].op = "WriteHeader"

\* One call of the handler as the history keeps it: its code when it is a
\* WriteHeader (0 otherwise) and whether the underlying writer had got its
\* WriteHeader before the call.
Asked(op, code) == [op |-> op, code |-> code, late |-> HeaderPassed(sink)]

AskIdle == asked = <<>>

\* The handler calls WriteHeader(code).
AskWriteHeader(code) ==
    /\ HandlerCalls
    /\ asked' = Append(asked, Asked("WriteHeader", code))
    /\ Becomes(IF via = "gzip" THEN GrwWriteHeader(World, code)
               ELSE RWWriteHeader(World, code))
    /\ UNCHANGED <<hpc, via, acceptEncoding, hijackable, wrote, writes>>
    /\ UNCHANGED notAsked

\* The handler calls Write(b).
AskWrite(b) ==
    /\ HandlerCalls
    /\ writes < MaxWrites
    /\ writes' = writes + 1
    /\ asked' = Append(asked, Asked("Write", 0))
    /\ LET failed == IF via = "gzip" THEN GrwWriteFails(World, b)
                      ELSE ~TransportOK(World)
       IN  wrote' = IF failed THEN wrote ELSE Cat(wrote, b)
    /\ Becomes(IF via = "gzip" THEN GrwWrite(World, b) ELSE RWWrite(World, Raw(b)))
    /\ UNCHANGED <<hpc, via, acceptEncoding, hijackable>>
    /\ UNCHANGED notAsked

\* The handler calls Flush().
AskFlush ==
    /\ HandlerCalls
    /\ asked' = Append(asked, Asked("Flush", 0))
    /\ Becomes(IF via = "gzip" THEN GrwFlush(World) ELSE RWFlush(World))
    /\ UNCHANGED <<hpc, via, acceptEncoding, hijackable, wrote, writes>>
    /\ UNCHANGED notAsked

\* ---- what the client receives ----

\* The segments the transport took, in order.
RECURSIVE Delivered(_)
Delivered(s) ==
    IF s = <<>> THEN <<>>
    ELSE IF Head(s).op = "Write" /\ Head(s).ok
         THEN <<Head(s).seg>> \o Delivered(Tail(s))
         ELSE Delivered(Tail(s))

RECURSIVE Payload(_)
\* The bytes of a sequence of segments.
Payload(segs) ==
    IF segs = <<>> THEN NoBytes ELSE Cat(Head(segs).bytes, Payload(Tail(segs)))

\* What a reader gets from a body that is not of the expected form.
Corrupt == << <<"corrupt", 0>> >>

\* The body read as it is; a segment of a gzip stream in it is not the handler's bytes.
Identity(segs) ==
    IF \A i \in 1..Len(segs) : segs[i].kind = "raw" THEN Payload(segs) ELSE Corrupt

\* gzip.NewReader over the body and io.ReadAll: header, blocks, trailer, and
\* the checksum of the trailer that of the data.
GzipDecode(segs) ==
    IF /\ Len(segs) >= 2
       /\ segs[1].kind = "header"
       /\ segs[Len(segs)].kind = "trailer"
       /\ \A i \in 2..(Len(segs) - 1) : segs[i].kind = "block"
       /\ Payload(SubSeq(segs, 2, Len(segs) - 1)) = segs[Len(segs)].bytes
    THEN segs[Len(segs)].bytes
    ELSE Corrupt

\* The header map the response went out with: as it stood at the first
\* WriteHeader with a final status, or as it stands when there was none.
SentHeader ==
    LET at == {i \in 1..Len(sink) :
                  sink[i].op = "WriteHeader" /\ sink[i].ok /\ sink[i].code >= 200}
    IN  IF at = {} THEN header
        ELSE sink[CHOOSE i \in at : \A j \in at : i <= j].hdr

\* The body as a client reads it, by the Content-Encoding it was sent with.
ClientBody ==
    IF SentHeader.ce = <<"gzip">> THEN GzipDecode(Delivered(sink))
    ELSE Identity(Delivered(sink))

(***************************************************************************)
(*   recoveryWriter / Recovery (logging_test.go), statusWriter (part_010)  *)
(*   and gzipResponseWriter, stacked around one transport writer           *)
(*                                                                         *)
(* Each middleware hands the next one its own wrapper of the writer it was *)
(* given, so the handler's writer is stack[1] and stack[Len(stack)] wraps  *)
(* the transport writer. A call on a wrapper is a record with its op and   *)
(* its argument; what a wrapper calls on the writer it wraps goes to the   *)
(* next wrapper of the stack, and past the last one to the transport.      *)
(* http.NewResponseController(w).Flush() and .Hijack() call the method of  *)
(* w when w has it, which every wrapper does, and report ErrNotSupported   *)
(* when w is a transport writer without it.                                *)
(***************************************************************************)

Wrappers == {"recovery", "status", "gzip"}

\* Every order of one, two or three different wrappers.
Stacks ==
    {s \in UNION {[1..n -> Wrappers] : n \in 1..Cardinality(Wrappers)} :
        \A i, j \in DOMAIN s : i # j => s[i] # s[j]}

\* The handler's largest number of calls on its writer.
MaxChainCalls == 3

ChainCodes == {101, 103, 200, 204}
ChainChunks == {<< <<"t", 1>> >>, << <<"t", minCompressSize>> >>}

\* The body http.Error writes: the text and a newline.
ErrorBody == << <<"e", 22>> >>
TextPlain == <<"text/plain", ";", " ", "charset", "=", "utf-8">>

ChainWorld ==
    [rec |-> rec, sw |-> sw, x |-> World, recv |-> recv, wire |-> wire]

ChainBecomes(c) ==
    /\ rec' = c.rec
    /\ sw' = c.sw
    /\ Becomes(c.x)
    /\ recv' = c.recv
    /\ wire' = c.wire

\* ---- the transport writer ----

\* A call on the transport writer; a Flush or Hijack it does not support is
\* never made.
ToTransport(c, call) ==
    LET took == ~TransportHijacked(c.wire)
    IN  CASE call.op = "WriteHeader" ->
               [c EXCEPT !.wire = Append(@, [op |-> "WriteHeader", code |-> call.code,
                                             hdr |-> c.x.header, ok |-> took])]
          [] call.op = "Write" ->
               [c EXCEPT !.wire = Append(@, [op |-> "Write", seg |-> call.seg,
                                             ok |-> took])]
          [] call.op = "Flush" ->
               IF flushable
               THEN [c EXCEPT !.wire = Append(@, [op |-> "Flush", ok |-> took])]
               ELSE c
          [] call.op = "Hijack" ->
               IF hijackable
               THEN [c EXCEPT !.wire = Append(@, [op |-> "Hijack", ok |-> took])]
               ELSE c

\* rc.Flush() on the writer at position k returns no error.
FlushOK(c, k) ==
    IF k <= Len(stack) THEN TRUE ELSE flushable /\ ~TransportHijacked(c.wire)

\* rc.Hijack() returns no error: every wrapper returns what the writer it
\* wraps returned.
HijackOK(c) == hijackable /\ ~TransportHijacked(c.wire)

RECURSIVE On(_, _, _)
RECURSIVE OnAll(_, _, _)

\* ---- recoveryWriter ----

RecWriteHeader(c, k, call) ==
    On([c EXCEPT !.rec.written = @ \/ call.code = 101 \/ call.code >= 200],
       k + 1, call)

RecWrite(c, k, call) == On([c EXCEPT !.rec.written = TRUE], k + 1, call)

RecFlush(c, k, call) ==
    [On(c, k + 1, call) EXCEPT !.rec.written = @ \/ FlushOK(c, k + 1)]

RecHijackKeeps(c, k, call) == [c EXCEPT !.rec.written = @ \/ HijackOK(c)]

RecHijack(c, k, call) ==
    [On(c, k + 1, call) EXCEPT !.rec.written = @ \/ HijackOK(c)]

\* ---- statusWriter ----

SwWriteHeaderForwards(c, k, call) ==
    On(IF ~c.sw.written
       THEN [c EXCEPT !.sw.status = call.code, !.sw.written = TRUE] ELSE c,
       k + 1, call)

SwWriteHeader(c, k, call) ==
    IF ~c.sw.written
    THEN On([c EXCEPT !.sw.status = call.code, !.sw.written = TRUE], k + 1, call)
    ELSE c

SwWrite(c, k, call) ==
    On(IF ~c.sw.written THEN [c EXCEPT !.sw.status = 200, !.sw.written = TRUE] ELSE c,
       k + 1, call)

SwHijackUnchecked(c, k, call) == [On(c, k + 1, call) EXCEPT !.sw.hijacked = TRUE]

SwHijack(c, k, call) ==
    [On(c, k + 1, call) EXCEPT !.sw.hijacked = @ \/ HijackOK(c)]

SwFlush(c, k, call) ==
    LET c1 == On(c, k + 1, call)
    IN  IF FlushOK(c, k + 1) /\ ~c1.sw.written
        THEN [c1 EXCEPT !.sw.status = 200, !.sw.written = TRUE]
        ELSE c1

\* ---- gzipResponseWriter in the stack ----

\* A call the wrapper made on its underlying writer, as the next writer gets it.
CallOf(e) ==
    CASE e.op = "WriteHeader" -> [op |-> "WriteHeader", code |-> e.code]
      [] e.op = "Write" -> [op |-> "Write", seg |-> e.seg]
      [] OTHER -> [op |-> e.op]

\* The wrapper went from c.x to y: the calls it made on the way go down.
Passes(c, k, y) ==
    OnAll([c EXCEPT !.x = y], k + 1,
          [i \in 1..(Len(y.sink) - Len(c.x.sink)) |-> CallOf(y.sink[Len(c.x.sink) + i])])

GrwCall(c, k, call) ==
    Passes(c, k, CASE call.op = "WriteHeader" -> GrwWriteHeader(c.x, call.code)
                   [] call.op = "Write" -> GrwWrite(c.x, call.seg.bytes)
                   [] call.op = "Flush" -> GrwFlush(c.x)
                   [] call.op = "Hijack" -> GrwHijack(c.x))

\* ---- a call on the writer at position k ----

On(c, k, call) ==
    IF k > Len(stack) THEN ToTransport(c, call)
    ELSE LET c1 == [c EXCEPT !.recv[k] = Append(@, call)]
         IN  CASE stack[k] = "gzip" -> GrwCall(c1, k, call)
               [] stack[k] = "recovery" /\ call.op = "WriteHeader" -> RecWriteHeader(c1, k, call)
               [] stack[k] = "recovery" /\ call.op = "Write" -> RecWrite(c1, k, call)
               [] stack[k] = "recovery" /\ call.op = "Flush" -> RecFlush(c1, k, call)
               [] stack[k] = "recovery" /\ call.op = "Hijack" -> RecHijack(c1, k, call)
               [] stack[k] = "status" /\ call.op = "WriteHeader" -> SwWriteHeader(c1, k, call)
               [] stack[k] = "status" /\ call.op = "Write" -> SwWrite(c1, k, call)
               [] stack[k] = "status" /\ call.op = "Flush" -> SwFlush(c1, k, call)
               [] stack[k] = "status" /\ call.op = "Hijack" -> SwHijack(c1, k, call)

OnAll(c, k, cs) ==
    IF cs = <<>> THEN c ELSE OnAll(On(c, k, Head(cs)), k, Tail(cs))

\* ---- the middlewares after next.ServeHTTP ----

\* http.Error(w, "Internal Server Error", 500) on the writer at position k.
HttpError(c, k) ==
    OnAll([c EXCEPT !.x.header.cl = <<>>, !.x.header.ct = TextPlain], k,
          << [op |-> "WriteHeader", code |-> 500],
             [op |-> "Write", seg |-> Raw(ErrorBody)] >>)

RecoveredAlwaysWrites(c, k) == HttpError(c, k)

\* The deferred function of Recovery past the test for http.ErrAbortHandler.
Recovered(c, k) == IF c.rec.written THEN c ELSE HttpError(c, k)

RecoveryDeferredCatchesAll(c, k, p) ==
    IF p # "none" THEN [c |-> Recovered(c, k), p |-> "none"] ELSE [c |-> c, p |-> p]

\* The deferred function of Recovery: recover() gives p; http.ErrAbortHandler
\* is raised again, any other value is answered here.
RecoveryDeferred(c, k, p) ==
    IF p = "other" THEN [c |-> Recovered(c, k), p |-> "none"] ELSE [c |-> c, p |-> p]

RECURSIVE Unwind(_, _, _)
\* The handler is over, with the panic value p or "none": the middlewares
\* from the one that called it to the first one, each with what reaches it.
Unwind(c, k, p) ==
    IF k > Len(stack) THEN [c |-> c, p |-> p]
    ELSE CASE stack[k] = "gzip" ->
                Unwind(Passes(c, k, Released(IF p = "none" THEN GrwClose(c.x)
                                             ELSE ClosePanicked(c.x))),
                       k + 1, p)
           [] stack[k] = "status" -> Unwind(c, k + 1, p)
           [] stack[k] = "recovery" ->
                Unwind(RecoveryDeferred(c, k, p).c, k + 1, RecoveryDeferred(c, k, p).p)

\* ---- the request through the chain ----

ChainInit ==
    /\ stack \in Stacks
    /\ flushable \in BOOLEAN
    /\ rec = [written |-> FALSE]
    /\ sw = [status |-> 0, written |-> FALSE, hijacked |-> FALSE]
    /\ recv = [k \in 1..Len(stack) |-> <<>>]
    /\ wire = <<>>
    /\ spc = "idle"
    /\ thrown = "none"
    /\ ncalls = 0

ChainIdle ==
    /\ stack = <<>>
    /\ flushable = FALSE
    /\ rec = [written |-> FALSE]
    /\ sw = [status |-> 0, written |-> FALSE, hijacked |-> FALSE]
    /\ recv = <<>>
    /\ wire = <<>>
    /\ spc = "idle"
    /\ thrown = "none"
    /\ ncalls = 0

chainFixed == <<stack, flushable, hijackable, hpc, via, acceptEncoding, wrote,
                calls, writes>>

HasGzip == \E k \in 1..Len(stack) : stack[k] = "gzip"

\* The middlewares up to the handler: each builds its wrapper; Compress, for
\* a request that accepts gzip, adds Vary and takes an encoder from the pool.
ChainServe ==
    /\ spc = "idle"
    /\ spc' = "serving"
    /\ IF HasGzip
       THEN /\ header' = [header EXCEPT !.vary = Append(@, "Accept-Encoding")]
            /\ pool' = [pool EXCEPT !.gets = @ + 1]
            /\ gw' = ResetWriter("w")
            /\ grw' = NewGzipResponseWriter
       ELSE UNCHANGED <<header, pool, gw, grw>>
    /\ UNCHANGED <<rec, sw, recv, wire, thrown, ncalls, sink, decision>>
    /\ UNCHANGED chainFixed
    /\ UNCHANGED notChain

\* One more call of the handler on the first writer of the stack.
ChainCalls(call) ==
    /\ spc = "serving"
    /\ ncalls < MaxChainCalls
    /\ ncalls' = ncalls + 1
    /\ ChainBecomes(On(ChainWorld, 1, call))
    /\ UNCHANGED <<spc, thrown>>
    /\ UNCHANGED chainFixed

ChainWriteHeader(code) ==
    /\ ChainCalls([op |-> "WriteHeader", code |-> code])
    /\ UNCHANGED notChain

ChainWrite(b) ==
    /\ ChainCalls([op |-> "Write", seg |-> Raw(b)])
    /\ UNCHANGED notChain

ChainFlush ==
    /\ ChainCalls([op |-> "Flush"])
    /\ UNCHANGED notChain

ChainHijack ==
    /\ ChainCalls([op |-> "Hijack"])
    /\ UNCHANGED notChain

\* The handler is over: it returned (v = "none") or panicked with v.
ChainEnds(v) ==
    /\ spc = "serving"
    /\ thrown' = v
    /\ LET u == Unwind(ChainWorld, 1, v)
       IN  /\ ChainBecomes(u.c)
           /\ spc' = IF u.p = "none" THEN "returned" ELSE u.p
    /\ UNCHANGED ncalls
    /\ UNCHANGED chainFixed

ChainReturns ==
    /\ ChainEnds("none")
    /\ UNCHANGED notChain

\* v is "abort" for http.ErrAbortHandler and "other" for any other value.
ChainPanics(v) ==
    /\ ChainEnds(v)
    /\ UNCHANGED notChain

(***************************************************************************)
(*                        CORS (ratelimit_test.go)                         *)
(*                                                                         *)
(* An origin, configured or in a request, is kept as its tokens: words and *)
(* the separators "://", ":" and "/"; the empty sequence is the empty      *)
(* string, which for a request header is the header not being set.         *)
(***************************************************************************)

defaultCORSMaxAge == 3600

\* The longest list of configured origins.
MaxOrigins == 2

OriginEntries ==
    { <<"example.com">>,
      <<"Other.COM">>,
      <<"*">>,
      <<>>,
      <<"https", "://", "example.com">>,
      <<"example.com", ":", "8443">> }

OriginLists == UNION {[1..n -> OriginEntries] : n \in 0..MaxOrigins}

\* The Origin headers of the requests: none, the wildcard token, listed hosts
\* under several schemes, ports and letter cases, a host never listed, and
\* values from which url.Parse gets no host or an error.
RequestOrigins ==
    { <<>>,
      <<"*">>,
      <<"https", "://", "example.com">>,
      <<"http", "://", "EXAMPLE.com", ":", "8443">>,
      <<"ws", "://", "other.com", ":", "80", "/", "chat">>,
      <<"https", "://", "evil.com">>,
      <<"example.com">>,
      <<"example.com", ":", "8443">>,
      <<"https", "://">>,
      <<"://", "example.com">>,
      <<"https", "://", "example.com", ":", "port">> }

Ports == {"80", "8443"}

\* strings.ToLower, for the words of the origins.
ToLower(word) ==
    CASE word \in {"EXAMPLE.com", "Example.com"} -> "example.com"
      [] word = "Other.COM" -> "other.com"
      [] OTHER -> word

\* extractHostname(origin): url.Parse and URL.Hostname(). A host is found
\* only after a scheme and "//"; a value that starts with a colon or whose
\* port is not a number does not parse; the port and the path are dropped.
extractHostname(origin) ==
    IF Len(origin) >= 3 /\ origin[1] \notin {"://", ":", "/"} /\ origin[2] = "://"
    THEN LET authority == Cut(SubSeq(origin, 3, Len(origin)), "/").before
         IN  IF Len(authority) = 1 /\ authority[1] \notin {"://", ":"}
             THEN authority[1]
             ELSE IF /\ Len(authority) = 3
                     /\ authority[1] \notin {"://", ":"}
                     /\ authority[2] = ":"
                     /\ authority[3] \in Ports
                  THEN authority[1]
                  ELSE ""
    ELSE ""

\* The validators of ValidateHostname(), by name: v rejects the entry e.
Rejects(v, e) ==
    CASE v = "ValidateNoScheme" -> \E i \in 1..Len(e) : e[i] = "://"
      [] v = "ValidateNoPath" -> \E i \in 1..Len(e) : e[i] \in {"/", "://"}
      [] v = "ValidateNoPort" ->
            Cardinality({i \in 1..Len(e) : e[i] \in {":", "://"}}) = 1
      [] v = "ValidateNoWildcard" -> e = <<"*">>
      [] v = "ValidateNotEmpty" -> e = <<>>

ValidateHostname ==
    {"ValidateNoScheme", "ValidateNoPath", "ValidateNoPort", "ValidateNoWildcard",
     "ValidateNotEmpty"}

ValidatorSets == {{}, {"ValidateNoWildcard"}, ValidateHostname}

validateOriginLenient(origin, validators) == TRUE

validateOrigin(origin, validators) == \A v \in validators : ~Rejects(v, origin)

\* The entries of the list that go on to the match set.
Kept(origins, validators) ==
    {origins[i] : i \in {j \in 1..Len(origins) :
                            validateOrigin(origins[j], validators) /\ origins[j] # <<>>}}

ReconciledKeepsCredentials(wildcard, hosts, credentials) ==
    [wildcard |-> wildcard /\ (~credentials \/ hosts = {}),
     allowCredentials |-> credentials]

ReconciledKeepsBoth(wildcard, hosts, credentials) ==
    [wildcard |-> wildcard, allowCredentials |-> credentials]

ReconciledKeepsWildcard(wildcard, hosts, credentials) ==
    [wildcard |-> wildcard,
     allowCredentials |-> credentials /\ ~(wildcard /\ hosts = {})]

\* Credentials asked for: with the wildcard alone they are given up, else
\* the wildcard is.
Reconciled(wildcard, hosts, credentials) ==
    IF credentials
    THEN IF wildcard /\ hosts = {}
         THEN [wildcard |-> TRUE, allowCredentials |-> FALSE]
         ELSE [wildcard |-> FALSE, allowCredentials |-> TRUE]
    ELSE [wildcard |-> wildcard, allowCredentials |-> FALSE]

\* CORS(opts...): what the returned middleware keeps. Options not given are
\* the defaults of the code, so origins here is what WithAllowedOrigins set.
CORS(origins, validators, credentials, exposed) ==
    LET kept == Kept(origins, validators)
        hosts == {[i \in 1..Len(e) |-> ToLower(e[i])] : e \in kept \ {<<"*">>}}
        r == Reconciled(<<"*">> \in kept, hosts, credentials)
    IN  [origins |-> origins, validators |-> validators, asked |-> credentials,
         allowedHostnames |-> hosts,
         wildcard |-> r.wildcard,
         allowCredentials |-> r.allowCredentials,
         methods |-> <<"GET", ",", " ", "HEAD", ",", " ", "POST">>,
         headers |-> <<"Origin", ",", " ", "Accept", ",", " ", "Content-Type",
                       ",", " ", "X-Requested-With">>,
         exposedHeaders |-> exposed,
         maxAge |-> defaultCORSMaxAge]

NoCORSHeader ==
    [vary |-> <<>>, acao |-> <<>>, acac |-> <<>>, aceh |-> <<>>, acam |-> <<>>,
     acah |-> <<>>, acma |-> 0]

NoResponse == [hdr |-> NoCORSHeader, status |-> 0, next |-> 0]

MatchedWhenAnyListed(cfg, origin) == cfg.allowedHostnames # {}

MatchedByWholeOrigin(cfg, origin) ==
    [i \in 1..Len(origin) |-> ToLower(origin[i])] \in cfg.allowedHostnames

\* _, matched := allowedHostnames[strings.ToLower(extractHostname(origin))]
Matched(cfg, origin) ==
    <<ToLower(extractHostname(origin))>> \in cfg.allowedHostnames

PreflightOnOptions(r) == r.method = "OPTIONS"

\* The request is a preflight.
Preflight(r) == r.method = "OPTIONS" /\ r.acrm # <<>>

\* The handler of the middleware on the request r: the headers it sets, the
\* status it writes (0 when it writes none) and its calls of next.ServeHTTP.
CORSHandler(cfg, r) ==
    LET h0 == [NoCORSHeader EXCEPT !.vary = <<"Origin">>]
        h1 == [h0 EXCEPT !.acao = IF cfg.wildcard THEN <<"*">> ELSE r.origin,
                         !.acac = IF cfg.allowCredentials THEN <<"true">> ELSE <<>>,
                         !.aceh = cfg.exposedHeaders]
        h2 == [h1 EXCEPT !.vary = @ \o <<"Access-Control-Request-Method",
                                         "Access-Control-Request-Headers">>,
                         !.acam = cfg.methods,
                         !.acah = cfg.headers,
                         !.acma = IF cfg.maxAge > 0 THEN cfg.maxAge ELSE 0]
    IN  IF r.origin = <<>> THEN [hdr |-> h0, status |-> 0, next |-> 1]
        ELSE IF ~Matched(cfg, r.origin) /\ ~cfg.wildcard
             THEN [hdr |-> h0, status |-> 0, next |-> 1]
             ELSE IF Preflight(r) THEN [hdr |-> h2, status |-> 204, next |-> 0]
                  ELSE [hdr |-> h1, status |-> 0, next |-> 1]

CORSInit ==
    /\ cors \in {CORS(o, v, c, e) : o \in OriginLists, v \in ValidatorSets,
                                    c \in BOOLEAN, e \in {<<>>, <<"X-Total">>}}
    /\ creq = [method |-> "", origin |-> <<>>, acrm |-> <<>>]
    /\ cres = NoResponse

CORSIdle ==
    /\ cors = CORS(<<>>, {}, FALSE, <<>>)
    /\ creq = [method |-> "", origin |-> <<>>, acrm |-> <<>>]
    /\ cres = NoResponse

\* One request through the middleware, on a writer with no header set yet.
CORSServes(method, origin, acrm) ==
    /\ creq' = [method |-> method, origin |-> origin, acrm |-> acrm]
    /\ cres' = CORSHandler(cors, creq')
    /\ UNCHANGED cors
    /\ UNCHANGED notCORS

(***************************************************************************)
(*                       RequestID (request_id.go)                         *)
(*                                                                         *)
(* A request ID is a byte string kept as runs <<byte, count>> of byte      *)
(* values 0..255. One request at a time is followed through the            *)
(* middleware; when it needs a new ID its goroutine is a worker going      *)
(* through generate() by the steps of the generator above.                 *)
(***************************************************************************)

maxRequestIDLength == 256

\* What r.Header.Get(RequestIDHeader) returns: the empty string when the
\* header is not set, IDs at both sides of maxRequestIDLength, and bytes at
\* both sides of each end of 0x20..0x7E, alone or between others.
InboundIDs ==
    { <<>>,
      << <<97, 1>> >>,
      << <<48, 16>> >>,
      << <<97, maxRequestIDLength>> >>,
      << <<97, maxRequestIDLength + 1>> >>,
      << <<97, maxRequestIDLength - 1>>, <<98, 2>> >>,
      << <<32, 1>> >>,
      << <<126, 1>> >>,
      << <<31, 1>> >>,
      << <<127, 1>> >>,
      << <<195, 1>>, <<169, 1>> >>,
      << <<97, 1>>, <<10, 1>>, <<98, 1>> >> }

\* len(s) of a byte string.
RECURSIVE StrLen(_)
StrLen(s) == IF s = <<>> THEN 0 ELSE s[1][2] + StrLen(Tail(s))

\* The bytes that occur in a byte string.
BytesOf(s) == {s[i][1] : i \in {j \in 1..Len(s) : s[j][2] > 0}}

\* isPrintableASCII with the upper end of the range one byte too far (0x7F).
isPrintableASCIIWithDel(s) == \A b \in BytesOf(s) : ~(b < 32 \/ b > 127)

\* isPrintableASCII (lines 151-159): no byte below 0x20 or above 0x7E.
isPrintableASCII(s) == \A b \in BytesOf(s) : ~(b < 32 \/ b > 126)

\* The test of line 174, negated: the inbound ID is kept.
Reusable(id) ==
    ~(id = <<>> \/ StrLen(id) > maxRequestIDLength \/ ~isPrintableASCII(id))

\* The k lowest hexadecimal digits of n, the highest first.
RECURSIVE Nibbles(_, _)
Nibbles(n, k) ==
    IF k = 0 THEN <<>> ELSE Append(Nibbles(n \div 16, k - 1), n % 16)

\* The byte encoding/hex writes for a 4-bit value: "0123456789abcdef".
HexDigit(d) == IF d < 10 THEN 48 + d ELSE 87 + d

\* Lines 128-132: the 64 bits of the ID in big-endian order, two hexadecimal
\* digits per byte. Bits 24..63 are hi without its lowest bit, bits 20..23
\* are the lowest bit of hi above the three highest bits of lo, bits 0..19
\* are the rest of lo. The result has one run per character.
HexEncode(id) ==
    LET digits == Nibbles(id.hi \div 2, 10)
                  \o << (id.hi % 2) * 8 + (id.lo \div (2 ^ 20)) >>
                  \o Nibbles(id.lo % (2 ^ 20), 5)
    IN  [i \in 1..Len(digits) |-> <<HexDigit(digits[i]), 1>>]

NoRequest == [st |-> "idle"]

\* Lines 178-182: the ID is set on the request, on the response and in the
\* context handed to the next handler.
Handled(inbound, id, generated) ==
    [st |-> "done", inbound |-> inbound, generated |-> generated,
     reqHeader |-> id, resHeader |-> id, ctxID |-> id]

RidInit == rid = NoRequest

\* The middleware of a specification that is about another component.
RidIdle == rid = NoRequest

\* Lines 173-182 for a request whose inbound ID is kept, lines 173-175 up to
\* g.mu.Lock() for one that gets a new ID from the goroutine w.
RidArrives(w, inbound) ==
    /\ rid.st # "generating"
    /\ pc[w] = "idle"
    /\ IF Reusable(inbound)
       THEN /\ rid' = Handled(inbound, inbound, FALSE)
            /\ pc' = pc
       ELSE /\ rid' = [st |-> "generating", inbound |-> inbound, w |-> w]
            /\ pc' = [pc EXCEPT ![w] = "lock"]
    /\ UNCHANGED <<clock, machineID, sequence, lastTimestamp, holder, now,
                   firstNow, reread, entrySeq, out, watched, dup>>
    /\ UNCHANGED notRequestID

\* generate() returns to line 175 (lines 120-133 and the deferred
\* g.mu.Unlock()), then lines 178-182.
RidGenerated(w) ==
    /\ rid.st = "generating"
    /\ rid.w = w
    /\ pc[w] = "compose"
    /\ holder = w
    /\ lastTimestamp' = now
    /\ out' = SnowflakeID(now, machineID, sequence)
    /\ rid' = Handled(rid.inbound, HexEncode(out'), TRUE)
    /\ holder' = 0
    /\ pc' = [pc EXCEPT ![w] = "idle"]
    /\ now' = 0
    /\ firstNow' = 0
    /\ reread' = FALSE
    /\ entrySeq' = 0
    /\ UNCHANGED <<clock, machineID, sequence, watched, dup>>
    /\ UNCHANGED notRequestID

(***************************************************************************)
(*                            Specifications                               *)
(***************************************************************************)

SnowNext == SnowStep

UniqueNext ==
    \/ SnowStep
    \/ \E w \in Workers : ReturnWatched(w)

SnowflakeInit == SnowInit /\ BucketIdle /\ GzipIdle /\ ChainIdle /\ CORSIdle /\ RidIdle
    /\ LiveIdle /\ AcqIdle /\ AskIdle

\* The generator alone.
SpecSnowflake == SnowflakeInit /\ [][SnowNext]_vars

\* The generator with the history of one watched ID.
SpecUnique == SnowflakeInit /\ [][UniqueNext]_vars

\* The generator under fair scheduling: a goroutine that can take a step of
\* generate() takes it, a goroutine waiting at g.mu.Lock() gets the mutex
\* when it is released again and again (sync.Mutex hands it to a waiter that
\* has waited long), and a spinning call that keeps reading the clock reads
\* it at a moment at which it shows a value that ends the loop, if there are
\* such moments again and again. New calls and the clock are not forced.
LiveFairness ==
    \A w \in Workers :
        /\ SF_vars(Lock(w))
        /\ WF_vars(ReadClock(w))
        /\ SF_vars(SpinBack(w) /\ clock >= lastTimestamp)
        /\ SF_vars(SpinSeq(w) /\ clock > lastTimestamp)
        /\ WF_vars(Return(w))

LiveNext ==
    \/ Tick
    \/ \E w \in Workers : LiveCall(w)
    \/ \E w \in Workers : Lock(w)
    \/ \E w \in Workers : ReadClock(w)
    \/ \E w \in Workers : SpinBack(w)
    \/ \E w \in Workers : SpinSeq(w)
    \/ \E w \in Workers : Return(w)

LiveSpecInit ==
    LiveInit /\ BucketIdle /\ GzipIdle /\ ChainIdle /\ CORSIdle /\ RidIdle
    /\ AcqIdle /\ AskIdle

SpecLive == LiveSpecInit /\ [][LiveNext]_vars /\ LiveFairness

BucketStep ==
    \/ TbTick
    \/ Request

BucketNext == BucketStep

BucketSpecInit == BucketInit /\ SnowIdle /\ GzipIdle /\ ChainIdle /\ CORSIdle /\ RidIdle
    /\ LiveIdle /\ AcqIdle /\ AskIdle

\* The rate limiter alone.
SpecBucket == BucketSpecInit /\ [][BucketNext]_vars

GzipStep ==
    \/ \E ae \in AcceptEncodings : Serve(ae)
    \/ \E v \in ContentTypes : SetContentType(v)
    \/ \E v \in ContentEncodings : SetContentEncoding(v)
    \/ \E v \in ContentLengths : SetContentLength(v)
    \/ \E code \in StatusCodes : WriteHeader(code)
    \/ \E b \in Chunks : Write(b)
    \/ Flush
    \/ Hijack
    \/ HandlerReturns
    \/ HandlerPanics

GzipNext == GzipStep

GzipSpecInit == GzipInit /\ SnowIdle /\ BucketIdle /\ ChainIdle /\ CORSIdle /\ RidIdle
    /\ LiveIdle /\ AcqIdle /\ AskIdle

\* One request through Compress, with any handler behind it.
SpecGzip == GzipSpecInit /\ [][GzipNext]_vars

\* One request through Compress whose handler only calls WriteHeader, Write
\* and Flush, in any order.
AskNext ==
    \/ \E ae \in AcceptEncodings : Serve(ae)
    \/ \E code \in StatusCodes : AskWriteHeader(code)
    \/ \E b \in Chunks : AskWrite(b)
    \/ AskFlush
    \/ HandlerReturns
    \/ HandlerPanics

SpecAsk == GzipSpecInit /\ [][AskNext]_vars

AcceptStep ==
    \/ \E ae \in AcceptHeaders : Serve(ae)
    \/ \E b \in Chunks : Write(b)
    \/ HandlerReturns

AcceptNext == AcceptStep

AcceptSpecInit == GzipIdle /\ SnowIdle /\ BucketIdle /\ ChainIdle /\ CORSIdle /\ RidIdle
    /\ LiveIdle /\ AcqIdle /\ AskIdle

\* The negotiation of Compress over many Accept-Encoding headers, with a
\* handler that only writes.
SpecAccept == AcceptSpecInit /\ [][AcceptNext]_vars

ChainNext ==
    \/ ChainServe
    \/ \E code \in ChainCodes : ChainWriteHeader(code)
    \/ \E b \in ChainChunks : ChainWrite(b)
    \/ ChainFlush
    \/ ChainHijack
    \/ ChainReturns
    \/ \E v \in {"abort", "other"} : ChainPanics(v)

\* One request through a stack of wrappers, for every stack and transport.
ChainSpecInit == ChainInit /\ GzipInit /\ SnowIdle /\ BucketIdle /\ CORSIdle /\ RidIdle
    /\ LiveIdle /\ AcqIdle /\ AskIdle
SpecChain == ChainSpecInit /\ [][ChainNext]_vars

CORSNext ==
    \E method \in {"GET", "OPTIONS"}, origin \in RequestOrigins,
       acrm \in {<<>>, <<"POST">>} :
        CORSServes(method, origin, acrm)

\* Requests through one CORS middleware, for every configuration.
CORSSpecInit == CORSInit /\ GzipIdle /\ ChainIdle /\ SnowIdle /\ BucketIdle /\ RidIdle
    /\ LiveIdle /\ AcqIdle /\ AskIdle
SpecCORS == CORSSpecInit /\ [][CORSNext]_vars

\* Concurrent callers of tryAcquire() on one bucket.
AcquireNext ==
    \/ TaTick
    \/ \E w \in Workers : TaCall(w)
    \/ \E w \in Workers : TaLock(w)
    \/ \E w \in Workers : TaRefill(w)
    \/ \E w \in Workers : TaTest(w)
    \/ \E w \in Workers : TaSpend(w)

AcquireSpecInit ==
    /\ BucketInit /\ AcqInit
    /\ SnowIdle /\ GzipIdle /\ ChainIdle /\ CORSIdle /\ RidIdle /\ LiveIdle
    /\ AskIdle

SpecAcquire == AcquireSpecInit /\ [][AcquireNext]_vars

\* RequestID: one request at a time, its goroutine going through generate()
\* while the clock moves.
RequestIDNext ==
    \/ Tick
    \/ \E w \in Workers : \E inbound \in InboundIDs : RidArrives(w, inbound)
    \/ \E w \in Workers : Lock(w)
    \/ \E w \in Workers : ReadClock(w)
    \/ \E w \in Workers : SpinBack(w)
    \/ \E w \in Workers : SpinSeq(w)
    \/ \E w \in Workers : RidGenerated(w)

RequestIDInit ==
    SnowInit /\ RidInit /\ BucketIdle /\ GzipIdle /\ ChainIdle /\ CORSIdle
    /\ LiveIdle /\ AcqIdle /\ AskIdle

SpecRequestID == RequestIDInit /\ [][RequestIDNext]_vars

(***************************************************************************)
(*                               Claims                                    *)
(***************************************************************************)

\* A step in which a generate() call returns.
Returns == holder # 0 /\ holder' = 0

\* C1: for one generator, no call returns an ID that an earlier call has
\* returned, whatever the clock reads and however the callers interleave:
\* the watched ID, an arbitrary earlier result, is never returned again.
C1_NoDuplicateID == dup = FALSE

\* C1 witness: an ID is being watched, a later call has returned another ID
\* and the clock has meanwhile stepped back behind the recorded timestamp.
C1_Witness ==
    /\ watched # NoID
    /\ out # NoID
    /\ out # watched
    /\ clock < DecodeTimestamp(watched)
    /\ DecodeTimestamp(out) > DecodeTimestamp(watched)

\* C2: the timestamp decoded from each returned ID is at least the timestamp
\* decoded from the ID returned before it.
C2_TimestampNonDecreasing ==
    [][(Returns /\ out # NoID) =>
          DecodeTimestamp(out') >= DecodeTimestamp(out)]_vars

\* C2 witness: a call whose first clock reading was behind the timestamp of
\* the previous ID is about to return.
C2_Witness ==
    /\ out # NoID
    /\ holder # 0
    /\ pc[holder] = "compose"
    /\ firstNow < DecodeTimestamp(out)

\* C3: a call whose clock reading is more than maxClockDriftMs behind
\* lastTimestamp returns without reading the clock again, with
\* timestamp lastTimestamp + 1 and sequence 0.
C3_LargeDriftAdvances ==
    [][(Returns /\ lastTimestamp - firstNow > maxClockDriftMs) =>
          /\ ~reread
          /\ DecodeTimestamp(out') = lastTimestamp + 1
          /\ DecodeSequence(out') = 0
          /\ lastTimestamp' = lastTimestamp + 1]_vars

\* C3 witness: a call that read the clock more than maxClockDriftMs behind
\* lastTimestamp has run lines 85-118 and is about to return.
C3_Witness ==
    /\ holder # 0
    /\ pc[holder] = "compose"
    /\ lastTimestamp - firstNow > maxClockDriftMs

C5_TokensWithinCapacity ==
    /\ tokens >= 0
    /\ tokens <= maxTokens * TokDen

\* C5 witness: a tryAcquire() whose refill would have passed the capacity
\* has admitted its request.
C5_Witness ==
    /\ capped
    /\ resp.status = 200
    /\ tokens = (maxTokens - 1) * TokDen

\* C6: on a fresh limiter of burst b and rate r, b requests with no time
\* elapsing are admitted, the next is rejected with 429 and Retry-After >= 1,
\* and after a wait of 1/r seconds one request is admitted and the one
\* after it is rejected.
C6_BurstThenOnePerWait ==
    /\ (scn = "burst" /\ burstReqs > 0) => resp.status = 200
    /\ scn = "limited" => (resp.status = 429 /\ resp.retryAfter >= 1)
    /\ scn = "one" => resp.status = 200
    /\ scn = "over" => resp.status = 429

\* C6 witness: the whole scenario has been run on a limiter of burst 2 or more.
C6_Witness ==
    /\ scn = "over"
    /\ burstReqs = maxTokens
    /\ maxTokens >= 2

\* C7: a rejected request carries a Retry-After equal to the time until one
\* token is available, (1 - tokens) / rate seconds, rounded up to whole
\* seconds and at least 1.
C7_RetryAfterIsWaitRoundedUp ==
    resp.status = 429 =>
        resp.retryAfter = Max(CeilDiv(TokDen - tokens, refillRate * TicksPerSecond), 1)

\* The media type a header value declares: its first word.
DeclaredType(ct) ==
    LET at == {i \in 1..Len(ct) : ct[i] \notin {" ", ";"}}
    IN  IF at = {} THEN <<>> ELSE <<ct[CHOOSE i \in at : \A j \in at : i <= j]>>

\* The handler returned normally and the transport took every call.
Served == hpc = "done" /\ ~TransportHijacked(sink)

\* Compress has put Content-Encoding: gzip on the response.
SetsGzip ==
    \/ header.ce = <<"gzip">>
    \/ \E i \in 1..Len(sink) : sink[i].op = "WriteHeader" /\ sink[i].hdr.ce = <<"gzip">>

\* C8 as stated: when a handler has returned normally through Compress, the
\* bytes delivered to the underlying writer, gzip-decoded when the response
\* carries Content-Encoding: gzip and as they are otherwise, are the
\* concatenation of the handler's writes in order.
C8_AsStated == hpc = "done" => ClientBody = wrote

\* C8: when a handler has returned normally through Compress and has not
\* hijacked the connection, the bytes delivered to the underlying writer,
\* gzip-decoded when the response carries Content-Encoding: gzip and as they
\* are otherwise, are the concatenation of the handler's writes in order.
C8_DeliveredBytesAreWrites == Served => ClientBody = wrote

C8_Witness ==
    /\ Served
    /\ via = "gzip"
    /\ SentHeader.ce = <<"gzip">>
    /\ writes > 1
    /\ \E i \in 1..Len(sink) : sink[i].op = "Flush"
    /\ ClientBody = wrote

\* C9: when the buffered body is below the 256-byte threshold at the time of
\* the decision, Compress does not set Content-Encoding and the body is
\* delivered as the handler wrote it.
C9_SmallBodyNotCompressed ==
    (via = "gzip" /\ decision.taken /\ decision.len < minCompressSize) =>
        /\ grw.skipGzip
        /\ ~SetsGzip
        /\ ~TransportHijacked(sink) =>
              Identity(Delivered(sink)) = wrote

C9_Witness ==
    /\ Served
    /\ via = "gzip"
    /\ decision.taken
    /\ decision.len = minCompressSize - 1
    /\ ByteLen(wrote) > minCompressSize
    /\ Identity(Delivered(sink)) = wrote

\* C10: when the Content-Type the handler declared is in the list of already
\* compressed types at the time of the decision, Compress does not set
\* Content-Encoding and delivers the body as written, also for a body of
\* 256 bytes or more.
C10_CompressedTypeNotCompressed ==
    (via = "gzip" /\ decision.taken
        /\ DeclaredType(decision.ct) \in compressedContentTypes) =>
        /\ grw.skipGzip
        /\ ~SetsGzip
        /\ ~TransportHijacked(sink) =>
              Identity(Delivered(sink)) = wrote

C10_Witness ==
    /\ Served
    /\ via = "gzip"
    /\ decision.taken
    /\ decision.len >= minCompressSize
    /\ Len(decision.ct) > 1
    /\ DeclaredType(decision.ct) \in compressedContentTypes
    /\ Identity(Delivered(sink)) = wrote

\* The words of a header value, without its separators.
Words(h) == SelectSeq(h, LAMBDA t : t \notin {" ", ";", "=", ","})

\* An entry of an Accept-Encoding header names gzip, in any letter case.
GzipEntry(e) == Words(e) # <<>> /\ Lower(Words(e)[1]) = "gzip"

\* An entry names gzip with weight zero, in one of the spellings of zero.
ZeroWeightGzip(e) ==
    /\ GzipEntry(e)
    /\ \E i \in 2..(Len(Words(e)) - 1) :
          /\ Lower(Words(e)[i]) = "q"
          /\ Words(e)[i + 1] \in {"0", "0.0", "0.000"}

HasZeroWeightGzip(h) ==
    \E i \in 1..Len(SplitSeq(h, ",")) : ZeroWeightGzip(SplitSeq(h, ",")[i])

FirstGzipHasZeroWeight(h) ==
    \E i \in 1..Len(SplitSeq(h, ",")) :
        /\ ZeroWeightGzip(SplitSeq(h, ",")[i])
        /\ \A j \in 1..(i - 1) : ~GzipEntry(SplitSeq(h, ",")[j])

\* The response went through Compress without compression.
NotCompressed ==
    /\ via = "plain"
    /\ ~SetsGzip
    /\ Identity(Delivered(sink)) = wrote

\* C11 as stated: for every Accept-Encoding header that contains a gzip entry
\* with weight zero, compression is not applied: no Content-Encoding is set
\* and the body is passed through as written.
C11_AsStated ==
    (hpc # "idle" /\ HasZeroWeightGzip(acceptEncoding)) => NotCompressed

\* C11, first entry: for every Accept-Encoding header whose first gzip entry
\* has weight zero, compression is not applied.
C11_FirstGzipEntryZero ==
    (hpc # "idle" /\ FirstGzipHasZeroWeight(acceptEncoding)) => NotCompressed

C11_Witness ==
    /\ hpc = "done"
    /\ FirstGzipHasZeroWeight(acceptEncoding)
    /\ Len(SplitSeq(acceptEncoding, ",")) = 2
    /\ ByteLen(wrote) >= minCompressSize
    /\ NotCompressed

\* The calls a step adds to those made on the underlying writer.
Added == SubSeq(sink', Len(sink) + 1, Len(sink'))

\* The positions of the WriteHeader calls made on the underlying writer.
HeaderCalls == {i \in 1..Len(sink) : sink[i].op = "WriteHeader"}

\* A step in which the handler calls Write on the wrapper.
WriteStep == via = "gzip" /\ writes' = writes + 1

\* C12: the compress/skip decision is taken at most once: once decided is
\* true it stays true, skipGzip and what the decision saw never change, the
\* underlying writer gets one WriteHeader, nothing is buffered any more, and a
\* later Write goes as it is to the underlying writer (skip) or into the gzip
\* encoder (compress).
C12_DecidedOnce ==
    [][(via = "gzip" /\ grw.decided) =>
         /\ grw'.decided
         /\ grw'.skipGzip = grw.skipGzip
         /\ decision' = decision
         /\ grw'.buf = NoBytes
         /\ {i \in 1..Len(sink') : sink'[i].op = "WriteHeader"} = HeaderCalls
         /\ Cardinality(HeaderCalls) = 1
         /\ (WriteStep /\ ~grw.commitErr) =>
               IF grw.skipGzip
               THEN \E b \in Chunks :
                       sink' = Append(sink, [op |-> "Write", seg |-> Raw(b),
                                             ok |-> ~TransportHijacked(sink)])
               ELSE gw.err \/ \E b \in Chunks :
                                 /\ gw'.pending = Cat(gw.pending, b)
                                 /\ gw'.digest = Cat(gw.digest, b)
                                 /\ sink' = sink]_vars

C12_Witness ==
    /\ via = "gzip"
    /\ hpc = "serving"
    /\ grw.decided
    /\ ~grw.skipGzip
    /\ ~gw.err
    /\ ByteLen(gw.digest) > decision.len

\* C13 as stated: once the wrapper is hijacked, no later call of the handler
\* and no end of the request makes the wrapper call WriteHeader or Write on
\* the underlying writer.
C13_AsStated ==
    [][(via = "gzip" /\ grw.hijacked) =>
         \A i \in 1..Len(Added) : Added[i].op \notin {"WriteHeader", "Write"}]_vars

\* C14 as stated: the hijacked flag never becomes true on a writer whose
\* compress/skip decision has already been taken.
C14_AsStated ==
    [][(via = "gzip" /\ grw.decided /\ ~grw.hijacked) => ~grw'.hijacked]_vars

\* C14, amended: the hijacked flag becomes true exactly in a step in which a
\* Hijack on the underlying writer succeeds, whether the wrapper is buffering
\* or has decided, and once true it stays true.
C14_HijackedWhenTransportIs ==
    [][via = "gzip" =>
         grw'.hijacked =
            (\/ grw.hijacked
             \/ \E i \in 1..Len(Added) : Added[i].op = "Hijack" /\ Added[i].ok)]_vars

C14_Witness ==
    /\ via = "gzip"
    /\ grw.hijacked
    /\ grw.decided
    /\ \E i \in HeaderCalls :
          /\ sink[i].ok
          /\ \E j \in (i + 1)..Len(sink) : sink[j].op = "Hijack" /\ sink[j].ok

\* C15: while the wrapper is buffering (decided is false) it has made no
\* WriteHeader call and no Write call on the underlying writer, whatever the
\* handler has called so far.
C15_BufferingSendsNothing ==
    (via = "gzip" /\ ~grw.decided) =>
        \A i \in 1..Len(sink) : sink[i].op \notin {"WriteHeader", "Write"}

C15_Witness ==
    /\ via = "gzip"
    /\ hpc = "serving"
    /\ ~grw.decided
    /\ grw.statusCode \notin {0, 200}
    /\ writes > 1
    /\ ByteLen(grw.buf) > 1

\* C16: when the decision is to compress, the header map handed to the
\* underlying WriteHeader has Content-Encoding: gzip, no Content-Length and a
\* Content-Type, and that WriteHeader comes before every write of compressed
\* bytes.
C16_CompressHeadersFirst ==
    (via = "gzip" /\ grw.decided /\ ~grw.skipGzip) =>
        /\ HeaderCalls # {}
        /\ \A i \in HeaderCalls :
              /\ sink[i].hdr.ce = <<"gzip">>
              /\ sink[i].hdr.cl = <<>>
              /\ sink[i].hdr.ct # <<>>
        /\ \A j \in 1..Len(sink) :
              sink[j].op = "Write" => \E i \in HeaderCalls : i < j

C16_Witness ==
    /\ via = "gzip"
    /\ grw.decided
    /\ ~grw.skipGzip
    /\ decision.cl # <<>>
    /\ decision.ct = <<>>
    /\ \E j \in 1..Len(sink) : sink[j].op = "Write" /\ sink[j].ok

\* What makes the decision skip whatever the size: the status or the
\* Content-Encoding the handler had set when the decision was taken.
SkipCause ==
    /\ decision.taken
    /\ \/ decision.status \in {204, 304, 206}
       \/ decision.status # 0 /\ decision.status < 200
       \/ decision.ce # <<>>

\* C17: when the handler's status is 204, 304, 206 or below 200, or the
\* handler has set a Content-Encoding, the decision is skip for every body
\* size: the underlying WriteHeader gets the handler's status and its
\* Content-Encoding value, and the body is delivered as written.
C17_StatusOrEncodingSkips ==
    (via = "gzip" /\ SkipCause) =>
        /\ grw.skipGzip
        /\ ~SetsGzip
        /\ HeaderCalls # {}
        /\ \A i \in HeaderCalls :
              /\ sink[i].code = IF decision.status = 0 THEN 200 ELSE decision.status
              /\ sink[i].hdr.ce = decision.ce
        /\ ~TransportHijacked(sink) => Identity(Delivered(sink)) = wrote

C17_Witness ==
    /\ Served
    /\ via = "gzip"
    /\ decision.taken
    /\ decision.status = 304
    /\ decision.ce # <<>>
    /\ decision.len >= minCompressSize
    /\ Identity(Delivered(sink)) = wrote

\* A step in which the handler calls Flush on the wrapper.
FlushStep ==
    /\ via = "gzip"
    /\ hpc = "serving"
    /\ Len(sink') > Len(sink)
    /\ sink'[Len(sink')].op = "Flush"

\* C18: a Flush on the wrapper commits the pending buffer, taking the
\* decision when it is not yet taken, then flushes the gzip encoder when
\* compressing, then flushes the transport: the WriteHeader of the commit is
\* the first call added, the encoder's block the last but one, the
\* transport's Flush the last, and every byte written before the Flush has
\* then been handed to the underlying writer.
C18_FlushOrder ==
    [][FlushStep =>
         /\ grw'.decided
         /\ grw'.buf = NoBytes
         /\ \A i \in 1..(Len(Added) - 1) : Added[i].op # "Flush"
         /\ ~grw.decided => Added[1].op = "WriteHeader"
         /\ \A i \in 2..Len(Added) : Added[i].op # "WriteHeader"
         /\ (~grw'.skipGzip /\ ~gw'.err) =>
               /\ gw'.pending = NoBytes
               /\ Len(Added) >= 2
               /\ Added[Len(Added) - 1].op = "Write"
               /\ Added[Len(Added) - 1].seg = [kind |-> "block", bytes |-> gw.pending]
                    \/ (~grw.decided /\
                        Added[Len(Added) - 1].seg = [kind |-> "block", bytes |-> grw.buf])
         /\ ~TransportHijacked(sink') => Payload(Delivered(sink')) = wrote]_vars

C18_Witness ==
    /\ via = "gzip"
    /\ Len(sink) >= 2
    /\ sink[Len(sink)].op = "Flush"
    /\ sink[Len(sink) - 1].op = "Write"
    /\ sink[Len(sink) - 1].seg.kind = "block"
    /\ ByteLen(sink[Len(sink) - 1].seg.bytes) >= minCompressSize
    /\ Payload(Delivered(sink)) = wrote

\* A step in which the handler panics.
PanicStep == hpc = "serving" /\ hpc' = "panicked"

\* C19: when the handler panics, Compress closes the gzip stream exactly when
\* compression had started (decided, not skipped) and the connection was not
\* hijacked: the encoder's last block and trailer are written and the
\* stream decodes; in every other case nothing more is written to the
\* underlying writer; and the request stays panicked.
C19_PanicClosesStartedStream ==
    [][/\ PanicStep =>
            IF via = "gzip" /\ grw.decided /\ ~grw.skipGzip /\ ~grw.hijacked
            THEN /\ Len(Added) = 2
                 /\ Added[1].seg.kind = "block"
                 /\ Added[2].seg.kind = "trailer"
                 /\ GzipDecode(Delivered(sink')) = wrote
            ELSE sink' = sink
       /\ hpc = "panicked" => hpc' = "panicked"]_vars

C19_Witness ==
    /\ hpc = "panicked"
    /\ via = "gzip"
    /\ Len(sink) >= 2
    /\ sink[Len(sink)].op = "Write"
    /\ sink[Len(sink)].seg.kind = "trailer"
    /\ writes > 1

\* C20: a request that took a gzip encoder from the pool puts it back exactly
\* once on every way out (normal return, panic, hijacked connection), reset to
\* the discard sink before the Put; a request that took none puts none.
C20_EncoderReturnedOnce ==
    /\ (via = "gzip" /\ hpc = "serving") => pool = [gets |-> 1, puts |-> <<>>]
    /\ (via = "gzip" /\ hpc \in {"done", "panicked"}) =>
          /\ pool = [gets |-> 1, puts |-> <<"discard">>]
          /\ gw.dst = "discard"
    /\ via \in {"none", "plain"} => pool = EmptyPoolLog

C20_Witness ==
    /\ hpc = "panicked"
    /\ via = "gzip"
    /\ grw.hijacked
    /\ grw.decided
    /\ pool.puts = <<"discard">>

\* ---- the wrapper chain ----

HasStatus == \E k \in 1..Len(stack) : stack[k] = "status"
StatusAt == CHOOSE k \in 1..Len(stack) : stack[k] = "status"
HasRecovery == \E k \in 1..Len(stack) : stack[k] = "recovery"
RecoveryAt == CHOOSE k \in 1..Len(stack) : stack[k] = "recovery"

\* The calls made on the writer that the wrapper at position k wraps.
Below(k) == IF k < Len(stack) THEN recv[k + 1] ELSE wire

Earliest(F) == CHOOSE i \in F : \A j \in F : i <= j

\* The Flush at position i of the calls t on the wrapper at k came back from
\* the wrapped writer without error.
FlushDone(t, k, i) ==
    /\ t[i].op = "Flush"
    /\ \/ k < Len(stack)
       \/ flushable /\ ~(hijackable /\ \E j \in 1..(i - 1) : t[j].op = "Hijack")

WritesOrHeaders(t) == {i \in 1..Len(t) : t[i].op \in {"WriteHeader", "Write"}}
DoneFlushes(t, k) == {i \in 1..Len(t) : FlushDone(t, k, i)}

\* The status the events F of t fix: that of the earliest one.
Recorded(t, F) ==
    IF F = {} THEN 0
    ELSE IF t[Earliest(F)].op = "WriteHeader" THEN t[Earliest(F)].code ELSE 200

\* The WriteHeader calls statusWriter makes when the events F of t fix the status.
Forwarded(t, F) ==
    IF F # {} /\ t[Earliest(F)].op = "WriteHeader" THEN <<t[Earliest(F)].code>>
    ELSE <<>>

\* The codes of the WriteHeader calls made on the writer statusWriter wraps,
\* those of Recovery on its own recoveryWriter (http.Error) left out.
HeaderCodesBelow(k) ==
    LET own(e) == k < Len(stack) /\ stack[k + 1] = "recovery" /\ e.code = 500
        hs == SelectSeq(Below(k), LAMBDA e : e.op = "WriteHeader" /\ ~own(e))
    IN  [i \in 1..Len(hs) |-> hs[i].code]

StatusFixedBy(F) ==
    /\ sw.status = Recorded(recv[StatusAt], F)
    /\ sw.written = (F # {})
    /\ HeaderCodesBelow(StatusAt) = Forwarded(recv[StatusAt], F)

\* C21 as stated: the status statusWriter records is fixed by the first
\* WriteHeader (its code) or Write (200) made on it, and no WriteHeader
\* after that changes it or is forwarded to the wrapped writer.
C21_AsStated ==
    (HasStatus /\ WritesOrHeaders(recv[StatusAt]) # {}) =>
        StatusFixedBy(WritesOrHeaders(recv[StatusAt]))

\* C21: the status statusWriter records is fixed by the first of the
\* WriteHeader calls (its code), the Write calls (200) and the Flush calls
\* that the wrapped writer carried out (200) made on it; no WriteHeader after
\* that changes the recorded status or is forwarded to the wrapped writer.
C21_StatusFixedByFirstEvent ==
    HasStatus =>
        StatusFixedBy(WritesOrHeaders(recv[StatusAt])
                          \cup DoneFlushes(recv[StatusAt], StatusAt))

C21_Witness ==
    /\ stack = <<"status">>
    /\ flushable
    /\ Len(recv[1]) = 3
    /\ recv[1][1].op = "Flush"
    /\ recv[1][2] = [op |-> "WriteHeader", code |-> 204]
    /\ recv[1][3] = [op |-> "WriteHeader", code |-> 103]
    /\ sw.status = 200
    /\ Len(wire) = 1

\* The handler ends in this step with the panic value v.
PanicsWith(v) == spc = "serving" /\ spc' # "serving" /\ thrown' = v

\* Recovery answers to what it was given (stack[Len(stack)] = "recovery").
RecoveryOutermost == HasRecovery /\ RecoveryAt = Len(stack)

\* A call on the transport writer that starts the response: a final status
\* line, a body byte, a flush or a takeover of the connection.
Starts(e) ==
    \/ e.op = "WriteHeader" /\ (e.code = 101 \/ e.code >= 200)
    \/ e.op \in {"Write", "Flush", "Hijack"}

Started(w) == \E i \in 1..Len(w) : Starts(w[i])

\* What http.Error(w, "Internal Server Error", 500) calls on w.
ErrorCalls ==
    << [op |-> "WriteHeader", code |-> 500],
       [op |-> "Write", seg |-> Raw(ErrorBody)] >>

\* The calls of s that are those of http.Error.
OfError(s) == SelectSeq(s, LAMBDA e : e \in {ErrorCalls[1], ErrorCalls[2]})

C23_AbortReraised ==
    [][(PanicsWith("abort") /\ HasRecovery) =>
          /\ spc' = "abort"
          /\ rec' = rec
          /\ OfError(recv'[RecoveryAt]) = <<>>
          /\ OfError(wire') = <<>>
          /\ ~HasGzip => wire' = wire /\ recv' = recv]_vars

C23_Witness ==
    /\ spc = "abort"
    /\ thrown = "abort"
    /\ stack = <<"recovery">>
    /\ ~rec.written
    /\ wire = <<>>
    /\ ncalls = 1

\* The handler calls op on the first writer of the stack in this step.
HandlerDoes(op) ==
    /\ spc = "serving"
    /\ ncalls' = ncalls + 1
    /\ recv'[1][Len(recv'[1])].op = op

\* The calls made on the transport writer in this step.
OnWire == SubSeq(wire', Len(wire) + 1, Len(wire'))

\* C24: for every order of recoveryWriter, statusWriter and gzipResponseWriter
\* (and every stack of one or two of them) around a transport writer that has
\* Flush, a Flush by the handler on the first wrapper ends with exactly one
\* Flush on the transport writer; around one that has Hijack, a Hijack by the
\* handler makes exactly one call, the transport writer's Hijack.
C24_FlushAndHijackReachTransport ==
    [][/\ (HandlerDoes("Flush") /\ flushable) =>
             /\ OnWire # <<>>
             /\ OnWire[Len(OnWire)].op = "Flush"
             /\ \A i \in 1..(Len(OnWire) - 1) : OnWire[i].op \in {"WriteHeader", "Write"}
       /\ (HandlerDoes("Hijack") /\ hijackable) =>
             OnWire = << [op |-> "Hijack", ok |-> ~TransportHijacked(wire)] >>]_vars

C24_Witness ==
    /\ stack = <<"recovery", "gzip", "status">>
    /\ flushable /\ hijackable
    /\ Len(wire) = 4
    /\ wire[1].op = "WriteHeader"
    /\ wire[2].op = "Write"
    /\ wire[3].op = "Flush"
    /\ wire[4] = [op |-> "Hijack", ok |-> TRUE]
    /\ sw.hijacked /\ grw.hijacked /\ rec.written

\* C25: over a transport writer without Hijack, a Hijack by the handler fails
\* (no call reaches the transport) and changes no wrapper: written of the
\* recoveryWriter and hijacked of the statusWriter and of the
\* gzipResponseWriter are as before, false if they were; a panic after
\* nothing but such Hijack calls is answered by Recovery with the 500.
C25_FailedHijackChangesNothing ==
    [][~hijackable =>
          /\ HandlerDoes("Hijack") =>
                /\ ~HijackOK(ChainWorld)
                /\ rec' = rec /\ sw' = sw /\ grw' = grw
                /\ wire' = wire
          /\ ~sw'.hijacked /\ ~grw'.hijacked
          /\ (/\ PanicsWith("other")
              /\ HasRecovery
              /\ \A i \in 1..Len(recv[1]) : recv[1][i].op = "Hijack") =>
                /\ ~rec.written
                /\ recv'[RecoveryAt] = recv[RecoveryAt] \o ErrorCalls
                /\ RecoveryOutermost =>
                      /\ Len(wire') = 2
                      /\ wire'[1].op = "WriteHeader" /\ wire'[1].code = 500]_vars

C25_Witness ==
    /\ ~hijackable
    /\ stack = <<"gzip", "status", "recovery">>
    /\ recv[1] = << [op |-> "Hijack"], [op |-> "Hijack"] >>
    /\ spc = "returned"
    /\ thrown = "other"
    /\ Len(wire) = 2
    /\ wire[1].code = 500
    /\ ~sw.hijacked /\ ~grw.hijacked

\* ---- CORS ----

\* A request with an Origin header has been served.
ServedOrigin == creq.origin # <<>>

\* The origins the middleware was built from come down to these entries.
ReducesTo == Kept(cors.origins, cors.validators)

\* C26: built with credentials asked for and origins that come down to the
\* wildcard alone, the middleware has credentials off, and every response to
\* a request with an Origin header carries Access-Control-Allow-Origin: *
\* and no Access-Control-Allow-Credentials.
C26_WildcardAloneDropsCredentials ==
    (cors.asked /\ ReducesTo = {<<"*">>}) =>
        /\ ~cors.allowCredentials
        /\ ServedOrigin => cres.hdr.acao = <<"*">> /\ cres.hdr.acac = <<>>

C26_Witness ==
    /\ cors.asked
    /\ cors.origins = << <<"*">>, <<>> >>
    /\ cors.validators = {}
    /\ creq.origin = <<"https", "://", "evil.com">>
    /\ creq.method = "OPTIONS" /\ creq.acrm # <<>>
    /\ cres.hdr.acao = <<"*">>
    /\ cres.hdr.acac = <<>>
    /\ cres.status = 204

\* The hostname of the request's Origin is one of the configured bare
\* hostnames that were kept, letter case aside.
ListedHost ==
    \E e \in ReducesTo :
        /\ Len(e) = 1
        /\ e # <<"*">>
        /\ ToLower(e[1]) = ToLower(extractHostname(creq.origin))

\* C27: built with credentials asked for and with the wildcard next to at
\* least one other entry, the middleware has the wildcard off and credentials
\* on: a request whose Origin names a listed hostname gets its Origin back in
\* Access-Control-Allow-Origin with Access-Control-Allow-Credentials: true,
\* and a request from any other origin gets neither header.
C27_WildcardOffWithExplicitHosts ==
    (cors.asked /\ <<"*">> \in ReducesTo /\ ReducesTo # {<<"*">>}) =>
        /\ ~cors.wildcard
        /\ cors.allowCredentials
        /\ ServedOrigin =>
              IF ListedHost
              THEN cres.hdr.acao = creq.origin /\ cres.hdr.acac = <<"true">>
              ELSE cres.hdr.acao = <<>> /\ cres.hdr.acac = <<>>

C27_Witness ==
    /\ cors.asked
    /\ cors.origins = << <<"*">>, <<"example.com">> >>
    /\ creq.origin = <<"https", "://", "evil.com">>
    /\ cres.hdr.acao = <<>>
    /\ cres.next = 1

\* The request's Origin is a scheme, "://", the host h, and then nothing or
\* a port, and nothing or a path.
OriginOfHost(h) ==
    LET o == creq.origin
        rest == SubSeq(o, 4, Len(o))
    IN  /\ Len(o) >= 3
        /\ o[1] \notin {"://", ":", "/"}
        /\ o[2] = "://"
        /\ o[3] = h
        /\ \/ rest = <<>>
           \/ Len(rest) = 2 /\ rest[1] = ":" /\ rest[2] \in Ports
           \/ Len(rest) = 2 /\ rest[1] = "/"
           \/ Len(rest) = 4 /\ rest[1] = ":" /\ rest[2] \in Ports /\ rest[3] = "/"

Hosts == {"example.com", "EXAMPLE.com", "other.com", "evil.com"}

\* C28: a configured bare hostname that was kept matches every Origin made of
\* any scheme, that hostname in any letter case and any port or none: the
\* response carries Access-Control-Allow-Origin, and without the wildcard its
\* value is the request's whole Origin.
C28_HostnameMatchesAnySchemeAndPort ==
    \A h \in Hosts :
        (/\ OriginOfHost(h)
         /\ \E e \in ReducesTo : Len(e) = 1 /\ e # <<"*">> /\ ToLower(e[1]) = ToLower(h)) =>
            cres.hdr.acao = IF cors.wildcard THEN <<"*">> ELSE creq.origin

C28_Witness ==
    /\ cors.origins = << <<"Other.COM">> >>
    /\ cors.validators = ValidateHostname
    /\ creq.origin = <<"ws", "://", "other.com", ":", "80", "/", "chat">>
    /\ cres.hdr.acao = creq.origin
    /\ cres.next = 1

\* The response carries no Access-Control-* header.
NoAccessControl ==
    /\ cres.hdr.acao = <<>> /\ cres.hdr.acac = <<>> /\ cres.hdr.aceh = <<>>
    /\ cres.hdr.acam = <<>> /\ cres.hdr.acah = <<>> /\ cres.hdr.acma = 0

\* C29: without the wildcard, a request with an Origin header whose hostname
\* is not a configured one (a preflight too, and an Origin that does not parse
\* or has no hostname too) goes to the wrapped handler exactly once, with no
\* Access-Control-* header set and no status written by the middleware.
C29_UnlistedOriginFallsThrough ==
    (ServedOrigin /\ ~cors.wildcard /\ ~ListedHost) =>
        /\ cres.next = 1
        /\ NoAccessControl
        /\ cres.status = 0

C29_Witness ==
    /\ cors.origins = << <<"example.com">> >>
    /\ creq = [method |-> "OPTIONS", origin |-> <<"://", "example.com">>,
               acrm |-> <<"POST">>]
    /\ cres.next = 1
    /\ cres.hdr.vary = <<"Origin">>

\* C30: for a request whose origin is matched (a listed hostname, or any
\* origin under the wildcard), OPTIONS with a non-empty
\* Access-Control-Request-Method is answered by the middleware with 204 and
\* the wrapped handler is not called; OPTIONS without that header goes to the
\* wrapped handler once, with Access-Control-Allow-Origin set and no
\* Access-Control-Allow-Methods and no status from the middleware.
C30_PreflightAnsweredWith204 ==
    (ServedOrigin /\ (ListedHost \/ cors.wildcard) /\ creq.method = "OPTIONS") =>
        IF creq.acrm # <<>>
        THEN /\ cres.status = 204
             /\ cres.next = 0
             /\ cres.hdr.acam = cors.methods
        ELSE /\ cres.status = 0
             /\ cres.next = 1
             /\ cres.hdr.acao # <<>>
             /\ cres.hdr.acam = <<>>

C30_Witness ==
    /\ cors.origins = << <<"example.com">> >>
    /\ creq = [method |-> "OPTIONS",
               origin |-> <<"http", "://", "EXAMPLE.com", ":", "8443">>,
               acrm |-> <<>>]
    /\ cres.next = 1
    /\ cres.hdr.acao = creq.origin
    /\ cres.hdr.acam = <<>>

\* Some configured validator rejects the entry e.
Rejected(e) == \E v \in cors.validators : Rejects(v, e)

ConfiguredEntries == {cors.origins[i] : i \in 1..Len(cors.origins)}

LowerOf(e) == [i \in 1..Len(e) |-> ToLower(e[i])]

\* C31: the match set is made of exactly the configured entries that no
\* configured validator rejects (the empty string and the wildcard aside), so
\* a rejected entry is not in it and every other entry is; a rejected wildcard
\* entry leaves wildcard matching off; and a request gets
\* Access-Control-Allow-Origin only under the wildcard or when its hostname
\* is a bare hostname entry that no validator rejects.
C31_RejectedEntriesDropped ==
    /\ \A e \in ConfiguredEntries :
          Rejected(e) => LowerOf(e) \notin cors.allowedHostnames
    /\ \A e \in ConfiguredEntries \ {<<>>, <<"*">>} :
          ~Rejected(e) => LowerOf(e) \in cors.allowedHostnames
    /\ (\A e \in ConfiguredEntries : e = <<"*">> => Rejected(e)) => ~cors.wildcard
    /\ (<<"*">> \in ConfiguredEntries /\ ~Rejected(<<"*">>) /\ ~cors.asked) => cors.wildcard
    /\ (ServedOrigin /\ cres.hdr.acao # <<>>) =>
          \/ cors.wildcard
          \/ \E e \in ConfiguredEntries :
                /\ ~Rejected(e)
                /\ Len(e) = 1
                /\ ToLower(e[1]) = ToLower(extractHostname(creq.origin))

C31_Witness ==
    /\ cors.validators = {"ValidateNoWildcard"}
    /\ cors.origins = << <<"*">>, <<"example.com">> >>
    /\ ~cors.asked
    /\ ~cors.wildcard
    /\ creq.origin = <<"https", "://", "evil.com">>
    /\ cres.hdr.acao = <<>>
    /\ cres.next = 1

\* C39: no response of the middleware carries Access-Control-Allow-Origin: *
\* together with Access-Control-Allow-Credentials: true, whatever origins,
\* validators and credentials option it was built with and whatever the
\* request's Origin.
C39_NeverWildcardWithCredentials ==
    /\ ~(cres.hdr.acao = <<"*">> /\ cres.hdr.acac = <<"true">>)
    /\ ~(cors.wildcard /\ cors.allowCredentials)

C39_Witness ==
    /\ cors.asked
    /\ cors.origins = << <<"*">> >>
    /\ cors.validators = {}
    /\ creq = [method |-> "GET", origin |-> <<"*">>, acrm |-> <<>>]
    /\ cres.hdr.acao = <<"*">>
    /\ cres.hdr.acac = <<>>
    /\ cres.next = 1


\* ---- RequestID ----

\* The characters of a byte string, one by one: character i is the byte of
\* the first run that ends at or after position i.
RunEnd(s, j) == StrLen(SubSeq(s, 1, j))
Chars(s) ==
    [i \in 1..StrLen(s) |->
        s[CHOOSE j \in 1..Len(s) :
            /\ RunEnd(s, j) >= i
            /\ \A k \in 1..(j - 1) : RunEnd(s, k) < i][1]]

\* The bytes of "0123456789abcdef" and the value of each.
HexChars == (48..57) \cup (97..102)
HexValue(b) == IF b <= 57 THEN b - 48 ELSE b - 87

\* The number a sequence of hexadecimal characters writes.
RECURSIVE ParseHex(_)
ParseHex(cs) ==
    IF cs = <<>> THEN 0
    ELSE 16 * ParseHex(SubSeq(cs, 1, Len(cs) - 1)) + HexValue(cs[Len(cs)])

\* id is the 16 lowercase hexadecimal characters that write the 64-bit ID n:
\* the first ten write bits 24..63 and the last six write bits 0..23.
WritesID(id, n) ==
    LET cs == Chars(id)
    IN  /\ Len(cs) = 16
        /\ \A i \in 1..16 : cs[i] \in HexChars
        /\ ParseHex(SubSeq(cs, 1, 10)) = n.hi \div 2
        /\ ParseHex(SubSeq(cs, 11, 16)) = (n.hi % 2) * (2 ^ 23) + n.lo

\* The inbound ID is non-empty, at most 256 characters long and made only of
\* the characters 0x20..0x7E.
Acceptable(id) ==
    LET cs == Chars(id)
    IN  /\ Len(cs) >= 1
        /\ Len(cs) <= 256
        /\ \A i \in 1..Len(cs) : cs[i] >= 32 /\ cs[i] <= 126

\* C32: RequestID keeps the inbound X-Request-ID exactly when it is non-empty,
\* at most 256 characters long and made only of printable ASCII characters
\* (0x20..0x7E); any other request gets a newly generated ID of 16
\* hexadecimal characters, the one generate() has just composed. The ID in
\* the request's context is the ID of the response header.
C32_ReuseOrGenerate ==
    rid.st = "done" =>
        /\ rid.ctxID = rid.resHeader
        /\ IF Acceptable(rid.inbound)
           THEN ~rid.generated /\ rid.ctxID = rid.inbound
           ELSE rid.generated /\ WritesID(rid.ctxID, out)

\* A request with the single character 0x7F has got a new ID, one with a
\* letter among its digits.
C32_Witness ==
    /\ rid.st = "done"
    /\ rid.inbound = << <<127, 1>> >>
    /\ rid.generated
    /\ \E i \in 1..Len(rid.ctxID) : rid.ctxID[i][1] >= 97
    /\ out.hi > 1


\* ---- the generator again ----

\* a < b for two IDs read as 64-bit unsigned integers.
Less64(a, b) == a.hi < b.hi \/ (a.hi = b.hi /\ a.lo < b.lo)

\* Calls return in the order in which they acquired the mutex, since each
\* holds it until it returns: Returns is the step in which one does.

\* C33: read as 64-bit unsigned integers, the IDs one generator returns are
\* strictly increasing in the order in which the calls acquire the mutex; the
\* machine-ID field of every ID is the generator's machine ID, which never
\* changes, and the sequence OR-ed into an ID is within 0..127, so that it
\* stays inside its field.
C33_IDsStrictlyIncrease ==
    [][Returns =>
        /\ out # NoID => Less64(out, out')
        /\ machineID' = machineID
        /\ sequence \in 0..127
        /\ DecodeMachine(out') = machineID
        /\ DecodeSequence(out') = sequence
        /\ DecodeTimestamp(out') = lastTimestamp']_vars

\* An ID with the highest sequence number and every bit of the machine ID
\* set has been returned, after 127 smaller ones of the same millisecond.
C33_Witness ==
    /\ out # NoID
    /\ DecodeSequence(out) = snowflakeMaxSequence
    /\ DecodeMachine(out) = snowflakeMachineMask
    /\ DecodeTimestamp(out) > 0


\* The clock shows a value greater than the last recorded timestamp again
\* and again.
ClockGetsAhead == []<>(clock > lastTimestamp)

\* C34: under fair scheduling and a clock that eventually shows a value
\* greater than the last recorded timestamp, every generate() call returns,
\* also the calls that wait for the mutex while its holder spins for the next
\* millisecond or for a clock that stepped back: no interleaving deadlocks.
C34_EveryCallReturns ==
    ClockGetsAhead => \A w \in Workers : (pc[w] # "idle") ~> (pc[w] = "idle")

\* One call spins after a sequence overflow while another waits for the mutex.
C34_Witness ==
    \E w, v \in Workers :
        /\ pc[w] = "spinSeq"
        /\ holder = w
        /\ pc[v] = "lock"


\* ---- the token bucket again ----

\* C35: when workers call tryAcquire() concurrently on a bucket holding k
\* tokens and no time elapses, the calls admitted are never more than
\* floor(k), and once the N calls have returned exactly min(N, floor(k)) of
\* them were admitted, whatever the interleaving: no token is spent twice.
C35_AdmitsMinOfCallsAndTokens ==
    /\ acq.admitted <= acq.k \div TokDen
    /\ tokens >= 0
    /\ (\A w \in Workers : acq.pc[w] = "idle") =>
           acq.admitted = Min(acq.calls, acq.k \div TokDen)

\* Three calls of concurrent workers on a bucket holding two tokens have
\* returned with no time elapsing, two of them admitted.
C35_Witness ==
    /\ \A w \in Workers : acq.pc[w] = "idle"
    /\ acq.calls = 3
    /\ acq.k \div TokDen = 2
    /\ acq.admitted = 2


\* A step in which a request goes through tryAcquire(): the clock stands.
Acquires == tbClock' = tbClock /\ vars' # vars

\* A rejected call leaves the refilled tokens as they are.
RejectionTakesNothing ==
    [][(Acquires /\ resp'.status = 429) =>
          tokens' = Refill(tokens, Elapsed(tbClock))]_vars

\* C36: the delay a rejected tryAcquire() returns is sufficient: when the
\* next call comes at least that long after the rejected one, with no other
\* call in between, it is admitted; and a rejected call takes no token.
C36_RetryDelaySuffices ==
    [][/\ (Acquires /\ resp.status = 429
             /\ tbClock - lastRefillTime >= resp.wait) => resp'.status = 200
       /\ (Acquires /\ resp'.status = 429) =>
             tokens' = Refill(tokens, Elapsed(tbClock))]_vars


\* ---- the status the wrapper passes on ----

\* Where the underlying writer got body bytes.
BodyCalls == {i \in 1..Len(sink) : sink[i].op = "Write"}

\* The handler's WriteHeader calls made while the underlying writer had not
\* got its WriteHeader yet.
EarlyCodes == {i \in 1..Len(asked) : asked[i].op = "WriteHeader" /\ ~asked[i].late}

\* At most one WriteHeader on the underlying writer, exactly one once the
\* handler has returned, and it comes before every body byte.
PassedOnce ==
    /\ Cardinality(HeaderCalls) <= 1
    /\ hpc = "done" => Cardinality(HeaderCalls) = 1
    /\ \A j \in BodyCalls : \E i \in HeaderCalls : i < j

\* C37 as stated: the code passed on is that of the first WriteHeader call the
\* handler made before the header was passed on, and 200 when it made none.
C37_AsStated ==
    via = "gzip" =>
        /\ PassedOnce
        /\ \A i \in HeaderCalls :
              sink[i].code =
                  IF EarlyCodes = {} THEN 200
                  ELSE asked[CHOOSE k \in EarlyCodes : \A m \in EarlyCodes : k <= m].code

\* C37: for every sequence of WriteHeader, Write and Flush calls of the
\* handler, gzipResponseWriter calls WriteHeader on the underlying writer at
\* most once, exactly once when the handler has returned normally, and before
\* every body byte it writes there; the code it passes is that of the
\* handler's WriteHeader call when this is the handler's first call of the
\* three, and 200 when the handler wrote or flushed first or made no call.
C37_CodeOfFirstCall ==
    via = "gzip" =>
        /\ PassedOnce
        /\ \A i \in HeaderCalls :
              sink[i].code =
                  IF asked # <<>> /\ asked[1].op = "WriteHeader"
                  THEN asked[1].code ELSE 200

\* The handler has written a few bytes, then called WriteHeader(204) while
\* nothing had been passed on, and returned: the underlying writer got 200.
C37_Witness ==
    /\ via = "gzip"
    /\ hpc = "done"
    /\ Len(asked) = 2
    /\ asked[1].op = "Write"
    /\ asked[2] = [op |-> "WriteHeader", code |-> 204, late |-> FALSE]
    /\ \E i \in HeaderCalls : sink[i].code = 200


\* ---- the wrapper chain again ----

\* The bytes of the Write calls among the calls s.
RECURSIVE WrittenLen(_)
WrittenLen(s) ==
    IF s = <<>> THEN 0
    ELSE (IF s[1].op = "Write" THEN ByteLen(s[1].seg.bytes) ELSE 0)
         + WrittenLen(Tail(s))

\* The handler set a status and wrote fewer than minCompressSize bytes, with
\* no Flush and no Hijack; s is the calls it made on its writer.
StatusAndSmallBody(s) ==
    /\ \E i \in 1..Len(s) : s[i].op = "WriteHeader"
    /\ \A i \in 1..Len(s) : s[i].op \in {"WriteHeader", "Write"}
    /\ WrittenLen(s) < minCompressSize

\* C38: with Recovery wrapping Compress and gzip accepted, when the handler
\* has set a status and written fewer than 256 bytes without flushing and then
\* panics with a value other than http.ErrAbortHandler, the transport gets
\* nothing of the handler's status and bytes: it gets the 500 response of
\* Recovery, with the plain-text error body as it is and no Content-Encoding.
C38_BufferedResponseReplacedBy500 ==
    (/\ stack = <<"gzip", "recovery">>
     /\ spc \notin {"idle", "serving"}
     /\ thrown = "other"
     /\ StatusAndSmallBody(recv[1])) =>
        /\ spc = "returned"
        /\ Len(wire) = 2
        /\ wire[1].op = "WriteHeader" /\ wire[1].code = 500 /\ wire[1].ok
        /\ wire[1].hdr.ct = TextPlain
        /\ wire[1].hdr.ce = <<>>
        /\ wire[2] = [op |-> "Write", seg |-> Raw(ErrorBody), ok |-> TRUE]

\* The handler called WriteHeader(204), wrote two single bytes and panicked,
\* and Recovery has answered.
C38_Witness ==
    /\ stack = <<"gzip", "recovery">>
    /\ spc = "returned"
    /\ thrown = "other"
    /\ Len(recv[1]) = 3
    /\ recv[1][1] = [op |-> "WriteHeader", code |-> 204]
    /\ recv[1][2].op = "Write"
    /\ recv[1][3].op = "Write"
    /\ WrittenLen(recv[1]) = 2
    /\ Len(wire) = 2


\* A call on the transport writer by which something of the response has
\* reached it: a status line that is final, a body write, a flush or a
\* takeover of the connection that succeeded.
Reached(e) ==
    \/ e.op = "WriteHeader" /\ (e.code = 101 \/ e.code >= 200)
    \/ e.op = "Write"
    \/ e.op \in {"Flush", "Hijack"} /\ e.ok

\* C40: recoveryWriter.written is true only if something has reached the
\* transport writer, whatever wrappers stand between the recoveryWriter and
\* the transport; so a handler that calls Flush on the recoveryWriter over a
\* transport that cannot flush and then panics is still answered with 500.
C40_WrittenOnlyIfTransportReached ==
    /\ (HasRecovery /\ rec.written) => \E i \in 1..Len(wire) : Reached(wire[i])
    /\ (/\ stack[1] = "recovery"
        /\ spc \notin {"idle", "serving"}
        /\ thrown = "other"
        /\ ~flushable
        /\ recv[1] = << [op |-> "Flush"] >>) =>
           \E i \in 1..Len(wire) : wire[i].op = "WriteHeader" /\ wire[i].code = 500

\* The same with nothing between the recoveryWriter and the transport.
WrittenWhenDirectlyOnTransport ==
    (stack[Len(stack)] = "recovery") => C40_WrittenOnlyIfTransportReached

\* A statusWriter between: Flush on a transport that cannot flush, then a panic.
FlushOverStatusWriter ==
    /\ stack = <<"recovery", "status">>
    /\ ~flushable
    /\ recv[1] = << [op |-> "Flush"] >>
    /\ thrown = "other"
    /\ spc = "returned"
    /\ rec.written
    /\ wire = <<>>

\* A gzipResponseWriter between: a small Write stays in its buffer.
WriteBufferedBelow ==
    /\ stack = <<"recovery", "gzip">>
    /\ spc = "serving"
    /\ Len(recv[1]) = 1
    /\ recv[1][1].op = "Write"
    /\ rec.written
    /\ wire = <<>>

====
